---- MODULE Spec2Model ----
(***************************************************************************)
(* Model of the digest approval workflow of slack_competitor_bot.py: the  *)
(* in-memory registry pending_digests, the renderers that fill it, and    *)
(* the four Slack listeners (approve, dismiss, edit, modal submission)    *)
(* that run as concurrent threads of the Bolt listener pool.              *)
(***************************************************************************)
EXTENDS Integers, Sequences, FiniteSets, TLC

\* ------------------------------------------------------------------ bounds
\* Digests generated plus listener invocations (button clicks and modal
\* submissions) started in one run of the model.
MaxEvents == 4
\* Digest ids in use.
MaxDigests == 2
\* Listener threads that may be in flight at the same time.
MaxThreads == 2
\* Calls plus transcript segments in the input of build_call_context.
MaxItems == 4
\* Firings of the weekly job plus slash commands in one run of the model.
MaxTriggers == 2
\* Pages of calls in the window fetch_calls_from_gong asks for.
MaxPages == 3
\* Full batches in the list of call ids handed to fetch_transcripts.
MaxBatches == 2
\* Insights in the list handed to the renderers.
MaxInsights == 2
\* Insight objects in one response of the synthesizer.
MaxReturned == 7
\* Sections of the edited text handed to the chunkers.
MaxSections == 4
\* The last day, counted from a Monday, on which get_date_range is called.
MaxDay == 20

\* ------------------------------------------------------- program constants
TARGET_CHANNEL == "#competitors"
APPROVAL_CHANNEL == "#competitor-digest"
ALL_COMPETITORS_ORDER ==
  <<"Veeva Systems", "Definitive Healthcare", "IQVIA", "MedScout", "RepSignal", "Alpha Sophia">>
MARKET_INTEL_COMPETITORS ==
  <<"Veeva Systems", "Definitive Healthcare", "Alpha Sophia", "IQVIA">>
\* max_chars of both free-text chunkers.
MaxChars == 2900
\* batch_size of fetch_transcripts.
batch_size == 50

\* A dictionary key that is not present (dict.get gives None or its default).
Missing == "<missing>"

\* ---------------------------------------------------------------- helpers
Range(s) == {s[i] : i \in DOMAIN s}

RECURSIVE JoinStr(_, _)
\* sep.join(strs)
JoinStr(strs, sep) ==
  IF strs = <<>> THEN ""
  ELSE IF Len(strs) = 1 THEN strs[1]
  ELSE strs[1] \o sep \o JoinStr(Tail(strs), sep)

RECURSIVE SumLen(_)
SumLen(secs) == IF secs = <<>> THEN 0 ELSE secs[1].len + SumLen(Tail(secs))

\* dict.get(key, default) on a field that may be Missing.
Get(v, default) == IF v = Missing THEN default ELSE v
\* Python truth value of a string field that may be Missing.
Truthy(v) == v # Missing /\ v # ""

\* pending_digests[digest_id] = entry
DictSet(dict, key, value) ==
  [k \in DOMAIN dict \cup {key} |-> IF k = key THEN value ELSE dict[k]]
\* pending_digests.pop(digest_id, None)
DictPop(dict, key) == [k \in DOMAIN dict \ {key} |-> dict[k]]

IsWhite(ch) == ch \in {" ", "\n", "\t", "\r"}

RECURSIVE LStrip(_)
LStrip(s) ==
  IF Len(s) > 0 /\ IsWhite(SubSeq(s, 1, 1)) THEN LStrip(SubSeq(s, 2, Len(s))) ELSE s

RECURSIVE RStrip(_)
RStrip(s) ==
  IF Len(s) > 0 /\ IsWhite(SubSeq(s, Len(s), Len(s)))
  THEN RStrip(SubSeq(s, 1, Len(s) - 1)) ELSE s

\* str.strip()
StripStr(s) == RStrip(LStrip(s))

\* ------------------------------------------------------------------ texts
\* A text is held as the list text.split("---") gives: a non-empty sequence
\* of sections [body, len], len the number of characters of the section and
\* body its content (a body shorter than len stands for a run of len
\* characters without white space or dashes).
Sec(body) == [body |-> body, len |-> Len(body)]
Run(name, n) == [body |-> name, len |-> n]

\* len(text)
TextLen(t) == SumLen(t) + 3 * (Len(t) - 1)

\* The string a section list stands for, as one piece of block text.
Whole(t, sep) ==
  [body |-> JoinStr([i \in DOMAIN t |-> t[i].body], sep),
   len  |-> SumLen(t) + Len(sep) * (Len(t) - 1)]

\* piece.strip()
Strip(p) ==
  LET b == StripStr(p.body) IN [body |-> b, len |-> p.len - (Len(p.body) - Len(b))]

\* The texts a reviewer submits in the edit modal.
TextEmpty == <<Sec("")>>
TextX == <<Sec("X")>>
TextY == <<Sec("Y")>>
TextLong == <<Run("A", 1000), Run("B", 1000), Run("C", 2000)>>
UserTexts == {TextEmpty, TextX, TextY, TextLong}

\* -------------------------------------------------------------- renderers
\* A Block Kit block: text and its length, and the buttons of an actions block.
Block(type, text) == [type |-> type, text |-> text, len |-> Len(text), elements |-> <<>>]
Divider == Block("divider", "")

\* datetime.fromisoformat(d).strftime("%B %d, %Y") on the dates of the model.
FormatDate(iso) ==
  CASE iso = "2026-10-26T00:00:00Z" -> "October 26, 2026"
    [] iso = "2026-11-01T23:59:59.999999Z" -> "November 01, 2026"
    [] OTHER -> iso

\* sentiment_emoji.get(sentiment, ":white_circle:")
SentimentEmoji(sentiment) ==
  CASE sentiment = "Favorable to AcuityMD" -> ":large_green_circle:"
    [] sentiment = "Unfavorable to AcuityMD" -> ":red_circle:"
    [] sentiment = "Neutral" -> ":white_circle:"
    [] OTHER -> ":white_circle:"

\* insight.get("competitor", "Unknown")
CompetitorOf(insight) == Get(insight.competitor, "Unknown")

\* grouped_gong.get(competitor, [])
GroupedGong(insights, competitor) ==
  SelectSeq(insights, LAMBDA i : CompetitorOf(i) = competitor)

\* market_intel.get(competitor, [])
IntelOf(market_intel, competitor) ==
  IF competitor \in DOMAIN market_intel THEN market_intel[competitor] ELSE <<>>

\* The competitors in the order in which the inputs first name them.
ActiveCompetitorsAsGiven(insights, market_intel) ==
  LET named == [i \in DOMAIN insights |-> CompetitorOf(insights[i])]
      first == SelectSeq([i \in DOMAIN named |-> [c |-> named[i], i |-> i]],
                         LAMBDA e : \A j \in 1 .. (e.i - 1) : named[j] # e.c)
      gong == [k \in DOMAIN first |-> first[k].c]
  IN  gong \o SelectSeq(MARKET_INTEL_COMPETITORS,
                        LAMBDA c : IntelOf(market_intel, c) # <<>> /\ c \notin Range(gong))

\* active_competitors of both renderers.
ActiveCompetitors(insights, market_intel) ==
  SelectSeq(ALL_COMPETITORS_ORDER,
            LAMBDA c : GroupedGong(insights, c) # <<>> \/ IntelOf(market_intel, c) # <<>>)
  \o (IF GroupedGong(insights, "Unknown") # <<>> THEN <<"Unknown">> ELSE <<>>)

RECURSIVE SplitFirst(_, _)
\* s.split(ch)[0]: what comes before the first ch.
SplitFirst(s, ch) ==
  IF Len(s) = 0 \/ SubSeq(s, 1, 1) = ch THEN ""
  ELSE SubSeq(s, 1, 1) \o SplitFirst(SubSeq(s, 2, Len(s)), ch)

\* str(call_id).split("|")[0].strip()
CleanCallId(call_id) == StripStr(SplitFirst(call_id, "|"))

\* The mrkdwn text of one insight section.
InsightBlockText(insight) ==
  LET sentiment == Get(insight.sentiment, "Neutral")
      call_title == Get(insight.call_title, "Unknown Call")
      call_date == Get(insight.call_date, "Unknown Date")
      call_id == IF Truthy(insight.call_id) THEN CleanCallId(insight.call_id) ELSE ""
      source == "_Source: " \o call_title \o " (" \o call_date \o ")_"
  IN  SentimentEmoji(sentiment) \o " _" \o Get(insight.category, "General") \o "_\n\n"
      \o Get(insight.summary, "") \o "\n\n"
      \o (IF Truthy(insight.quote) THEN "> \"" \o insight.quote \o "\"\n\n" ELSE "")
      \o (IF call_id # "" THEN source \o "\nhttps://app.gong.io/call?id=" \o call_id
          ELSE source)

\* The mrkdwn text of one market-intel section.
BulletBlockText(bullet_data) ==
  ":satellite: " \o Get(bullet_data.bullet, "")
  \o (IF Truthy(bullet_data.source_url)
      THEN "\n_<" \o bullet_data.source_url \o "|Source>_" ELSE "")

\* The blocks of one competitor section, its closing divider included.
CompetitorBlocks(insights, market_intel, competitor) ==
  LET gong_insights == GroupedGong(insights, competitor)
      intel_bullets == IntelOf(market_intel, competitor)
  IN  <<Block("section", "*" \o competitor \o "*")>>
      \o [i \in DOMAIN gong_insights |-> Block("section", InsightBlockText(gong_insights[i]))]
      \o [i \in DOMAIN intel_bullets |-> Block("section", BulletBlockText(intel_bullets[i]))]
      \o <<Divider>>

RECURSIVE ConcatAll(_)
ConcatAll(seqs) == IF seqs = <<>> THEN <<>> ELSE seqs[1] \o ConcatAll(Tail(seqs))

\* " + ".join(source_parts) or "No data"
SourcesLabel(insights, market_intel) ==
  LET gong == IF insights # <<>> THEN <<":headphones: Gong calls">> ELSE <<>>
      market == IF \E i \in DOMAIN MARKET_INTEL_COMPETITORS :
                     IntelOf(market_intel, MARKET_INTEL_COMPETITORS[i]) # <<>>
                THEN <<":satellite: Market signals">> ELSE <<>>
  IN  IF gong \o market = <<>> THEN "No data" ELSE JoinStr(gong \o market, " + ")

format_slack_blocks(insights, date_range, market_intel) ==
  LET head == <<Block("header", "Competitor Intelligence Report"),
                Block("context", "*Period:* " \o FormatDate(date_range[1]) \o " - "
                                 \o FormatDate(date_range[2]) \o " | *Sources:* "
                                 \o SourcesLabel(insights, market_intel)),
                Divider>>
      active == ActiveCompetitors(insights, market_intel)
      body == ConcatAll([k \in DOMAIN active |->
                           CompetitorBlocks(insights, market_intel, active[k])])
  IN  IF active = <<>>
      THEN head \o <<Block("section",
             "_No competitor intelligence found this week - no Gong mentions or notable market signals._")>>
      \* the trailing divider is removed
      ELSE head \o SubSeq(body, 1, Len(body) - 1)

\* The lines of one insight in the editable text.
InsightLines(insight) ==
  LET sentiment == Get(insight.sentiment, "Neutral")
      call_title == Get(insight.call_title, "Unknown Call")
      call_date == Get(insight.call_date, "Unknown Date")
      call_id == IF Truthy(insight.call_id) THEN CleanCallId(insight.call_id) ELSE ""
      source == "_Source: " \o call_title \o " (" \o call_date \o ")_"
  IN  <<SentimentEmoji(sentiment) \o " _" \o Get(insight.category, "General") \o "_",
        "Sentiment: " \o sentiment, "", Get(insight.summary, "")>>
      \o (IF Truthy(insight.quote) THEN <<"", "> \"" \o insight.quote \o "\"">> ELSE <<>>)
      \o <<"">>
      \o (IF call_id # "" THEN <<source, "https://app.gong.io/call?id=" \o call_id>>
          ELSE <<source>>)
      \o <<"">>

\* The lines of one market-intel bullet in the editable text.
BulletLines(bullet_data) ==
  <<":satellite: " \o Get(bullet_data.bullet, "")>>
  \o (IF Truthy(bullet_data.source_url)
      THEN <<"_Source: " \o bullet_data.source_url \o "_">> ELSE <<>>)
  \o <<"">>

\* The lines of one competitor section after its "---" line.
CompetitorLines(insights, market_intel, competitor) ==
  LET gong_insights == GroupedGong(insights, competitor)
      intel_bullets == IntelOf(market_intel, competitor)
  IN  <<"*" \o competitor \o "*", "">>
      \o ConcatAll([i \in DOMAIN gong_insights |-> InsightLines(gong_insights[i])])
      \o ConcatAll([i \in DOMAIN intel_bullets |-> BulletLines(intel_bullets[i])])

\* "\n".join(lines), as the sections its "---" lines split it into.
format_digest_as_text(insights, date_range, market_intel) ==
  LET head == <<"*COMPETITOR INTELLIGENCE REPORT*",
                "_Period: " \o FormatDate(date_range[1]) \o " - "
                \o FormatDate(date_range[2]) \o "_", "">>
      active == ActiveCompetitors(insights, market_intel)
  IN  IF active = <<>>
      THEN <<Sec(JoinStr(head \o <<"No competitor intelligence found this week.">>, "\n"))>>
      ELSE <<Sec(JoinStr(head, "\n") \o "\n")>>
           \o [k \in DOMAIN active |->
                 Sec("\n" \o JoinStr(CompetitorLines(insights, market_intel, active[k]), "\n")
                     \o (IF k < Len(active) THEN "\n" ELSE ""))]


\* A block whose text is a piece of edited free text.
PieceBlock(p) == [type |-> "section", text |-> p.body, len |-> p.len, elements |-> <<>>]

RECURSIVE ChunkLoopCut(_, _, _)
\* A chunker that cuts a section longer than max_chars down to max_chars.
ChunkLoopCut(sections, current_chunk, sep) ==
  IF sections = <<>>
  THEN IF Strip(current_chunk).len > 0 THEN <<Strip(current_chunk)>> ELSE <<>>
  ELSE LET section == IF sections[1].len > MaxChars
                      THEN [sections[1] EXCEPT !.len = MaxChars] ELSE sections[1] IN
       IF current_chunk.len + section.len + 4 <= MaxChars
       THEN ChunkLoopCut(Tail(sections),
                         IF current_chunk.len > 0
                         THEN [body |-> current_chunk.body \o sep \o section.body,
                               len  |-> current_chunk.len + Len(sep) + section.len]
                         ELSE section,
                         sep)
       ELSE (IF Strip(current_chunk).len > 0 THEN <<Strip(current_chunk)>> ELSE <<>>)
            \o ChunkLoopCut(Tail(sections), section, sep)

RECURSIVE ChunkLoop(_, _, _)
\* The "for section in sections" loop of both chunkers, from current_chunk on,
\* with the final flush: the pieces it appends as blocks.
ChunkLoop(sections, current_chunk, sep) ==
  IF sections = <<>>
  THEN IF Strip(current_chunk).len > 0 THEN <<Strip(current_chunk)>> ELSE <<>>
  ELSE LET section == sections[1] IN
       IF current_chunk.len + section.len + 4 <= MaxChars
       THEN ChunkLoop(Tail(sections),
                      IF current_chunk.len > 0
                      THEN [body |-> current_chunk.body \o sep \o section.body,
                            len  |-> current_chunk.len + Len(sep) + section.len]
                      ELSE section,
                      sep)
       ELSE (IF Strip(current_chunk).len > 0 THEN <<Strip(current_chunk)>> ELSE <<>>)
            \o ChunkLoop(Tail(sections), section, sep)

\* The content blocks handle_approve builds from edited text.
ApproveContentBlocks(edited_text) ==
  IF TextLen(edited_text) <= MaxChars
  THEN <<PieceBlock(Whole(edited_text, "---"))>>
  ELSE LET pieces == ChunkLoop(edited_text, Sec(""), "\n---")
       IN  [i \in DOMAIN pieces |-> PieceBlock(pieces[i])]

\* The content blocks handle_edit_submission builds from edited text.
SubmitContentBlocks(edited_text) ==
  IF TextLen(edited_text) <= MaxChars
  THEN <<PieceBlock(Whole(edited_text, "---"))>>
  ELSE LET pieces == ChunkLoop(edited_text, Sec(""), "---")
       IN  [i \in DOMAIN pieces |-> PieceBlock(pieces[i])]

Button(action_id, value) == [action_id |-> action_id, value |-> value]

\* An actions block without the edit button.
ActionsBlockNoEdit(digest_id) ==
  [type |-> "actions", text |-> "", len |-> 0,
   elements |-> <<Button("approve_digest", digest_id), Button("dismiss_digest", digest_id)>>]

\* The actions block of a review message.
ActionsBlock(digest_id) ==
  [type |-> "actions", text |-> "", len |-> 0,
   elements |-> <<Button("approve_digest", digest_id), Button("edit_digest", digest_id),
                  Button("dismiss_digest", digest_id)>>]

ExpiredText == "Sorry, this digest has expired. Please generate a new one."
ModalFailedText == "Failed to open edit modal. Please try clicking Edit again."
ErrorText == "Error posting to #competitors: SlackApiError"
ApprovedText == "Digest approved and posted!"
DismissedText == "Digest dismissed"
ReviewText == "Weekly Competitor Insights Digest - Ready for Review"
EditedReviewText == "Competitor Insights Report (Edited)"
ReportText == "Weekly Competitor Insights Report"

\* The blocks handle_approve posts to the target channel for a stored digest.
ApproveBlocks(data) ==
  IF data.has_edited_text
  THEN <<Block("header", "Competitor Insights Report"),
         Block("section", "This is our first attempt at an AI-generated competitor digest that peruses last week's gong calls for competitor mentions. Let us know what you think and if you have any suggestions to improve this!"),
         Divider>>
       \o ApproveContentBlocks(data.edited_text)
       \o <<Divider,
            Block("context", "_This report was automatically generated from Gong call analysis and public market intelligence sources, then edited before posting._")>>
  ELSE format_slack_blocks(data.insights, data.date_range, data.market_intel)
       \o <<Divider,
            Block("context", "_This report was automatically generated from Gong call analysis and public market intelligence sources._")>>

\* The blocks of the review message handle_edit_submission re-posts.
SubmitBlocks(digest_id, edited_text) ==
  <<Block("header", "Competitor Insights Report (Edited)")>>
  \o SubmitContentBlocks(edited_text)
  \o <<Divider, Block("section", "*Ready to post this edited digest to #competitors?*"),
       ActionsBlock(digest_id)>>

\* The blocks chat_update leaves in a review message.
ApprovedBlocks ==
  <<Block("section", ":white_check_mark: *Digest approved and posted to #competitors!*")>>
DismissedBlocks == <<Block("section", ":x: *Digest dismissed.* No action taken.")>>

\* The entry format_approval_message stores. The keys edited_text, message_ts
\* and channel_id are added later: has_edited_text = FALSE, message_ts = 0 and
\* channel_id = Missing stand for a key that is not in the dictionary.
NewEntry(insights, date_range, market_intel) ==
  [insights |-> insights, date_range |-> date_range, market_intel |-> market_intel,
   editable_text |-> format_digest_as_text(insights, date_range, market_intel),
   has_edited_text |-> FALSE, edited_text |-> TextEmpty,
   message_ts |-> 0, channel_id |-> Missing]

\* The blocks format_approval_message returns for the first review message.
format_approval_message(insights, date_range, market_intel, digest_id) ==
  format_slack_blocks(insights, date_range, market_intel)
  \o <<Divider, Block("section", "*Ready to post this digest to #competitors?*"),
       ActionsBlock(digest_id)>>


\* ------------------------------------------------------------------ state
VARIABLES
  keys,       \* the keys of the dictionary pending_digests
  objs,       \* the dictionary object stored under each digest id ever created
  created,    \* digests generated so far (ids are 1 .. created)
  messages,   \* the review channel: messages[ts] is the message with timestamp ts
  published,  \* the messages posted to TARGET_CHANNEL, in order
  modals,     \* modals[id]: edit modals open for digest id, not yet submitted
  running,    \* the listener invocations in flight, each with its position
  last,       \* the listener invocation that returned or raised in the latest step, if one did
  nEvents,    \* listener invocations started so far
  submitted,  \* submitted[id]: the text of the latest submission that found digest id, if any
  approved    \* approved[id]: approved notices written for digest id

vars == <<keys, objs, created, messages, published, modals, running, last, nEvents,
          submitted, approved>>

\* The triggers of generate_and_send_digest and the runs they start.
VARIABLES
  runs,        \* the runs of generate_and_send_digest in flight, each with its position
  store,       \* pending_digests as a dictionary keyed by the ids uuid4 gave
  reviews,     \* the review messages posted to APPROVAL_CHANNEL, in order
  ephemerals,  \* the chat_postEphemeral calls of handle_manual_trigger, in order
  issued,      \* the uuids drawn by format_approval_message, with the ids cut from them
  nTriggers    \* firings of the weekly job plus slash commands so far

tvars == <<runs, store, reviews, ephemerals, issued, nTriggers>>

\* One run of the mention-extraction pipeline.
VARIABLES
  pipe         \* the local variables of the run, with its position

pvars == <<pipe>>

\* The first generation cycle, step by step.
VARIABLES
  cycle        \* the local variables of generate_and_send_digest, with its position

cvars == <<cycle>>

\* One run of a weekly monitor script.
VARIABLES
  monitor      \* the local variables of main and of the call in progress

mvars == <<monitor>>

\* The start of the chat bot process.
VARIABLES
  boot         \* the configuration read at import and the position in main

bvars == <<boot>>

allvars == <<vars, tvars, pvars, cvars, mvars, bvars>>

DigestIds == 1 .. MaxDigests

\* pending_digests as the dictionary the listeners see.
pending_digests == [id \in keys |-> objs[id]]

\* What analyze_with_ai and get_market_intel hand to format_approval_message.
InsightA ==
  [competitor |-> "MedScout", category |-> "Pricing", summary |-> "Cheaper per seat.",
   quote |-> Missing, sentiment |-> "Unfavorable to AcuityMD", call_title |-> "Renewal call",
   call_date |-> "2026-10-27", call_id |-> "7781"]
BulletA == [bullet |-> "Veeva announced a new CRM release.", source_url |-> Missing]
NoIntel == [c \in Range(MARKET_INTEL_COMPETITORS) |-> <<>>]
DateRange == <<"2026-10-26T00:00:00Z", "2026-11-01T23:59:59.999999Z">>
DigestInputs ==
  { [insights |-> <<>>, market_intel |-> NoIntel],
    [insights |-> <<InsightA>>, market_intel |-> [NoIntel EXCEPT !["Veeva Systems"] = <<BulletA>>]] }

\* A Slack Web API call as a listener made it, with its outcome.
Call(call, channel, ts, text, blocks, value, ok) ==
  [call |-> call, channel |-> channel, ts |-> ts, text |-> text, blocks |-> blocks,
   value |-> value, ok |-> ok]
Notice(channel, text, ok) == Call("chat_postMessage", channel, 0, text, <<>>, TextEmpty, ok)

\* The buttons of a message, and the digest id they carry.
Buttons(msg) == ConcatAll([i \in DOMAIN msg.blocks |-> msg.blocks[i].elements])
Clickable(msg, action_id) == \E i \in DOMAIN Buttons(msg) : Buttons(msg)[i].action_id = action_id
ButtonValue(msg, action_id) ==
  LET bs == Buttons(msg) IN bs[CHOOSE i \in DOMAIN bs : bs[i].action_id = action_id].value

\* No listener has returned yet.
NoInvocation ==
  [n |-> 0, op |-> "none", digest_id |-> 0, channel_id |-> Missing, message_ts |-> 0,
   text |-> TextEmpty, pc |-> "done", found |-> FALSE, calls |-> <<>>, raised |-> FALSE]

\* No function of the pipeline has been called yet.
PipeIdle == [fn |-> "none", pc |-> "idle"]
CycleIdle == [n |-> 0, pc |-> "idle"]
\* No monitor script has been started yet.
MonitorIdle == [script |-> "none", pc |-> "idle"]
\* The chat bot process has not been started yet.
BootIdle == [pc |-> "idle"]

Init ==
  /\ runs = {}
  /\ store = <<>>
  /\ reviews = <<>>
  /\ ephemerals = <<>>
  /\ issued = <<>>
  /\ nTriggers = 0
  /\ pipe = PipeIdle
  /\ cycle = CycleIdle
  /\ monitor = MonitorIdle
  /\ boot = BootIdle
  /\ keys = {}
  /\ objs = <<>>
  /\ created = 0
  /\ messages = <<>>
  /\ published = <<>>
  /\ modals = [id \in DigestIds |-> 0]
  /\ running = {}
  /\ last = NoInvocation
  /\ nEvents = 0
  /\ submitted = [id \in DigestIds |-> <<>>]
  /\ approved = [id \in DigestIds |-> 0]

\* --------------------------------------------------------------- actions
\* generate_and_send_digest from format_approval_message on: the entry is
\* stored under a fresh id, the review message is posted, and a failed post
\* removes the entry again.
GenerateAndSendDigest ==
  /\ created < MaxDigests
  /\ created + nEvents < MaxEvents
  /\ \E input \in DigestInputs, ok \in BOOLEAN :
       LET digest_id == created + 1
           blocks == format_approval_message(input.insights, DateRange, input.market_intel,
                                             digest_id)
       IN  /\ created' = digest_id
           /\ objs' = Append(objs, NewEntry(input.insights, DateRange, input.market_intel))
           /\ IF ok
              THEN /\ keys' = keys \cup {digest_id}
                   /\ messages' = Append(messages,
                        [channel |-> APPROVAL_CHANNEL, text |-> ReviewText, blocks |-> blocks])
              ELSE UNCHANGED <<keys, messages>>
  /\ last' = NoInvocation
  /\ UNCHANGED <<published, modals, running, nEvents, submitted, approved>>

\* A listener invocation at its first statement.
Invocation(op, digest_id, channel_id, message_ts, text) ==
  [n |-> nEvents + 1, op |-> op, digest_id |-> digest_id, channel_id |-> channel_id,
   message_ts |-> message_ts, text |-> text, pc |-> "lookup", found |-> FALSE,
   calls |-> <<>>, raised |-> FALSE]

\* A reviewer clicks a button of a review message: Bolt hands the action to a
\* listener thread, with the button's value and the message's channel and ts.
Click(limit) ==
  /\ created + nEvents < MaxEvents
  /\ Cardinality(running) < limit
  /\ \E ts \in DOMAIN messages, op \in {"approve", "edit", "dismiss"} :
       /\ Clickable(messages[ts], op \o "_digest")
       /\ running' = running \cup
            {Invocation(op, ButtonValue(messages[ts], op \o "_digest"),
                        messages[ts].channel, ts, TextEmpty)}
  /\ nEvents' = nEvents + 1
  /\ last' = NoInvocation
  /\ UNCHANGED <<keys, objs, created, messages, published, modals, submitted, approved>>

\* A reviewer submits an open edit modal with some text.
SubmitModal(limit) ==
  /\ created + nEvents < MaxEvents
  /\ Cardinality(running) < limit
  /\ \E id \in DigestIds, text \in UserTexts :
       /\ modals[id] > 0
       /\ modals' = [modals EXCEPT ![id] = @ - 1]
       /\ running' = running \cup {Invocation("submit", id, Missing, 0, text)}
  /\ nEvents' = nEvents + 1
  /\ last' = NoInvocation
  /\ UNCHANGED <<keys, objs, created, messages, published, submitted, approved>>

\* The invocation moves on in its thread.
Continue(inv, next) == /\ running' = (running \ {inv}) \cup {next}
                       /\ last' = NoInvocation
\* The invocation returns, or raises out of the listener.
Finish(inv, final) == /\ running' = running \ {inv}
                      /\ last' = [final EXCEPT !.pc = "done"]

AddCall(inv, c) == [inv EXCEPT !.calls = Append(@, c)]
AddCalls(inv, c1, c2) == [inv EXCEPT !.calls = @ \o <<c1, c2>>]

\* An approve that goes on to publish without looking its id up.
ApproveWithoutLookup(inv) ==
  /\ inv.op = "approve" /\ inv.pc = "lookup"
  /\ Continue(inv, [inv EXCEPT !.pc = "publish", !.found = TRUE])
  /\ UNCHANGED <<keys, objs, created, messages, published, modals, nEvents, submitted,
                 approved>>

\* handle_approve: data = pending_digests.get(digest_id); the expiry notice
\* when it is not there.
ApproveLookup(inv) ==
  /\ inv.op = "approve" /\ inv.pc = "lookup"
  /\ IF inv.digest_id \in keys
     THEN Continue(inv, [inv EXCEPT !.pc = "publish", !.found = TRUE])
     ELSE \E ok \in BOOLEAN :
            Finish(inv, [AddCall(inv, Notice(inv.channel_id, ExpiredText, ok))
                           EXCEPT !.raised = ~ok])
  /\ UNCHANGED <<keys, objs, created, messages, published, modals, nEvents, submitted,
                 approved>>

\* The except branch of handle_approve: the error notice, which may itself fail.
ApproveError(inv, failed) ==
  \E ok \in BOOLEAN :
    Finish(inv, [AddCalls(inv, failed, Notice(inv.channel_id, ErrorText, ok))
                   EXCEPT !.raised = ~ok])

\* handle_approve: the blocks are built from the stored entry and posted to
\* the target channel.
ApprovePublish(inv) ==
  /\ inv.op = "approve" /\ inv.pc = "publish"
  /\ LET blocks == ApproveBlocks(objs[inv.digest_id]) IN
     \E ok \in BOOLEAN :
       LET c == Call("chat_postMessage", TARGET_CHANNEL, 0, ReportText, blocks, TextEmpty, ok)
       IN  IF ok
           THEN /\ published' = Append(published,
                     [channel |-> TARGET_CHANNEL, text |-> ReportText, blocks |-> blocks,
                      digest_id |-> inv.digest_id])
                /\ Continue(inv, [AddCall(inv, c) EXCEPT !.pc = "update"])
           ELSE /\ ApproveError(inv, c)
                /\ UNCHANGED published
  /\ UNCHANGED <<keys, objs, created, messages, modals, nEvents, submitted, approved>>

\* handle_approve: the clicked message becomes the approved notice, then the
\* entry is removed.
ApproveUpdate(inv) ==
  /\ inv.op = "approve" /\ inv.pc = "update"
  /\ \E ok \in BOOLEAN :
       LET c == Call("chat_update", inv.channel_id, inv.message_ts, ApprovedText,
                     ApprovedBlocks, TextEmpty, ok)
       IN  IF ok
           THEN /\ messages' = [messages EXCEPT ![inv.message_ts] =
                       [channel |-> inv.channel_id, text |-> ApprovedText,
                        blocks |-> ApprovedBlocks]]
                /\ approved' = [approved EXCEPT ![inv.digest_id] = @ + 1]
                /\ keys' = keys \ {inv.digest_id}
                /\ Finish(inv, AddCall(inv, c))
           ELSE /\ ApproveError(inv, c)
                /\ UNCHANGED <<keys, messages, approved>>
  /\ UNCHANGED <<objs, created, published, modals, nEvents, submitted>>

\* handle_dismiss: pending_digests.pop(digest_id, None), then the clicked
\* message becomes the dismissed notice. found records whether the pop removed
\* an entry; the listener itself does not look.
HandleDismiss(inv) ==
  /\ inv.op = "dismiss" /\ inv.pc = "lookup"
  /\ keys' = keys \ {inv.digest_id}
  /\ \E ok \in BOOLEAN :
       LET c == Call("chat_update", inv.channel_id, inv.message_ts, DismissedText,
                     DismissedBlocks, TextEmpty, ok)
       IN  /\ messages' = IF ok
                          THEN [messages EXCEPT ![inv.message_ts] =
                                  [channel |-> inv.channel_id, text |-> DismissedText,
                                   blocks |-> DismissedBlocks]]
                          ELSE messages
           /\ Finish(inv, [AddCall(inv, c) EXCEPT !.found = inv.digest_id \in keys,
                                                  !.raised = ~ok])
  /\ UNCHANGED <<objs, created, published, modals, nEvents, submitted, approved>>

\* data.get("edited_text") or data.get("editable_text", "")
CurrentText(data) ==
  IF data.has_edited_text /\ TextLen(data.edited_text) > 0
  THEN data.edited_text ELSE data.editable_text

\* An edit that also writes the text it shows into the entry as the override.
EditDataWithOverride(data, inv) ==
  [data EXCEPT !.message_ts = inv.message_ts, !.channel_id = inv.channel_id,
               !.has_edited_text = TRUE, !.edited_text = CurrentText(data)]

\* handle_edit: data["message_ts"] = message_ts; data["channel_id"] = channel_id
EditData(data, inv) ==
  [data EXCEPT !.message_ts = inv.message_ts, !.channel_id = inv.channel_id]

\* handle_edit: the lookup, the message reference stored in the entry, and the
\* modal opened with the current text.
HandleEdit(inv) ==
  /\ inv.op = "edit" /\ inv.pc = "lookup"
  /\ IF inv.digest_id \notin keys
     THEN /\ \E ok \in BOOLEAN :
               Finish(inv, [AddCall(inv, Notice(inv.channel_id, ExpiredText, ok))
                              EXCEPT !.raised = ~ok])
          /\ UNCHANGED <<objs, modals>>
     ELSE LET data == EditData(objs[inv.digest_id], inv)
              found == [inv EXCEPT !.found = TRUE]
          IN  /\ objs' = [objs EXCEPT ![inv.digest_id] = data]
              /\ \E ok \in BOOLEAN :
                   LET c == Call("views_open", inv.channel_id, inv.message_ts,
                                 "edit_digest_modal", <<>>, CurrentText(data), ok)
                   IN  IF ok
                       THEN /\ modals' = [modals EXCEPT ![inv.digest_id] = @ + 1]
                            /\ Finish(inv, AddCall(found, c))
                       ELSE /\ UNCHANGED modals
                            /\ \E ok2 \in BOOLEAN :
                                 Finish(inv, [AddCalls(found, c,
                                                Notice(inv.channel_id, ModalFailedText, ok2))
                                                EXCEPT !.raised = ~ok2])
  /\ UNCHANGED <<keys, created, messages, published, nEvents, submitted, approved>>

\* handle_edit_submission: data["edited_text"] = edited_text
StoreEdit(data, edited_text) ==
  [data EXCEPT !.has_edited_text = TRUE, !.edited_text = edited_text]

\* handle_edit_submission: the lookup, the edited text stored in the entry,
\* and the channel read back from it.
SubmitLookup(inv) ==
  /\ inv.op = "submit" /\ inv.pc = "lookup"
  /\ IF inv.digest_id \notin keys
     THEN /\ Finish(inv, inv)
          /\ UNCHANGED <<objs, submitted>>
     ELSE LET channel_id == objs[inv.digest_id].channel_id IN
          /\ objs' = [objs EXCEPT ![inv.digest_id] = StoreEdit(@, inv.text)]
          /\ submitted' = [submitted EXCEPT ![inv.digest_id] = <<inv.text>>]
          /\ IF Truthy(channel_id)
             THEN Continue(inv, [inv EXCEPT !.pc = "post", !.found = TRUE,
                                            !.channel_id = channel_id])
             ELSE Finish(inv, [inv EXCEPT !.found = TRUE])
  /\ UNCHANGED <<keys, created, messages, published, modals, nEvents, approved>>

\* A submission that rewrites the tracked review message in place.
SubmitUpdateInPlace(inv) ==
  /\ inv.op = "submit" /\ inv.pc = "post"
  /\ LET blocks == SubmitBlocks(inv.digest_id, inv.text)
         ts == objs[inv.digest_id].message_ts
     IN
     \E ok \in BOOLEAN :
       LET c == Call("chat_update", inv.channel_id, ts, EditedReviewText, blocks,
                     TextEmpty, ok)
       IN  /\ Finish(inv, [AddCall(inv, c) EXCEPT !.raised = ~ok])
           /\ IF ok
              THEN messages' = [messages EXCEPT ![ts] =
                        [channel |-> inv.channel_id, text |-> EditedReviewText,
                         blocks |-> blocks]]
              ELSE UNCHANGED messages
           /\ UNCHANGED objs
  /\ UNCHANGED <<keys, created, published, modals, nEvents, submitted, approved>>

\* handle_edit_submission: the digest is posted again as a new review message
\* and the entry is pointed at it.
SubmitPost(inv) ==
  /\ inv.op = "submit" /\ inv.pc = "post"
  /\ LET blocks == SubmitBlocks(inv.digest_id, inv.text) IN
     \E ok \in BOOLEAN :
       LET ts == Len(messages) + 1
           c == Call("chat_postMessage", inv.channel_id, IF ok THEN ts ELSE 0,
                     EditedReviewText, blocks, TextEmpty, ok)
       IN  /\ Finish(inv, [AddCall(inv, c) EXCEPT !.raised = ~ok])
           /\ IF ok
              THEN /\ messages' = Append(messages,
                        [channel |-> inv.channel_id, text |-> EditedReviewText,
                         blocks |-> blocks])
                   /\ objs' = [objs EXCEPT ![inv.digest_id].message_ts = ts,
                                           ![inv.digest_id].channel_id = inv.channel_id]
              ELSE UNCHANGED <<messages, objs>>
  /\ UNCHANGED <<keys, created, published, modals, nEvents, submitted, approved>>

\* The listeners run in the threads of Bolt's listener pool: any thread in
\* flight may take its next step.
Next ==
  \/ (GenerateAndSendDigest) /\ UNCHANGED <<tvars, pvars, cvars, mvars, bvars>>
  \/ (Click(MaxThreads)) /\ UNCHANGED <<tvars, pvars, cvars, mvars, bvars>>
  \/ (SubmitModal(MaxThreads)) /\ UNCHANGED <<tvars, pvars, cvars, mvars, bvars>>
  \/ (\E inv \in running : ApproveLookup(inv)) /\ UNCHANGED <<tvars, pvars, cvars, mvars, bvars>>
  \/ (\E inv \in running : ApprovePublish(inv)) /\ UNCHANGED <<tvars, pvars, cvars, mvars, bvars>>
  \/ (\E inv \in running : ApproveUpdate(inv)) /\ UNCHANGED <<tvars, pvars, cvars, mvars, bvars>>
  \/ (\E inv \in running : HandleDismiss(inv)) /\ UNCHANGED <<tvars, pvars, cvars, mvars, bvars>>
  \/ (\E inv \in running : HandleEdit(inv)) /\ UNCHANGED <<tvars, pvars, cvars, mvars, bvars>>
  \/ (\E inv \in running : SubmitLookup(inv)) /\ UNCHANGED <<tvars, pvars, cvars, mvars, bvars>>
  \/ (\E inv \in running : SubmitPost(inv)) /\ UNCHANGED <<tvars, pvars, cvars, mvars, bvars>>

Spec == Init /\ [][Next]_allvars

\* One listener at a time: the serial orders of the same listeners.
NextSerial ==
  \/ (GenerateAndSendDigest) /\ UNCHANGED <<tvars, pvars, cvars, mvars, bvars>>
  \/ (Click(1)) /\ UNCHANGED <<tvars, pvars, cvars, mvars, bvars>>
  \/ (SubmitModal(1)) /\ UNCHANGED <<tvars, pvars, cvars, mvars, bvars>>
  \/ (\E inv \in running : ApproveLookup(inv)) /\ UNCHANGED <<tvars, pvars, cvars, mvars, bvars>>
  \/ (\E inv \in running : ApprovePublish(inv)) /\ UNCHANGED <<tvars, pvars, cvars, mvars, bvars>>
  \/ (\E inv \in running : ApproveUpdate(inv)) /\ UNCHANGED <<tvars, pvars, cvars, mvars, bvars>>
  \/ (\E inv \in running : HandleDismiss(inv)) /\ UNCHANGED <<tvars, pvars, cvars, mvars, bvars>>
  \/ (\E inv \in running : HandleEdit(inv)) /\ UNCHANGED <<tvars, pvars, cvars, mvars, bvars>>
  \/ (\E inv \in running : SubmitLookup(inv)) /\ UNCHANGED <<tvars, pvars, cvars, mvars, bvars>>
  \/ (\E inv \in running : SubmitPost(inv)) /\ UNCHANGED <<tvars, pvars, cvars, mvars, bvars>>

SpecSerial == Init /\ [][NextSerial]_allvars

\* ------------------------------------------- the chunkers on their own
\* The sections of an edited text: runs of 1 to 3000 characters named after
\* their place in the text, an empty section and a blank one.
SectionName(i) == SubSeq("ABCDEFGH", i, i)
SectionLens == {1, 1400, 1492, 1496, 2896, 2897, 3000}
SectionsAt(i) ==
  {Run(SectionName(i), n) : n \in SectionLens} \cup {Sec(""), Sec(" ")}

ChunkInput == pipe.fn = "chunkers" /\ pipe.pc = "input"

\* The reviewer's text has one more section.
EditorAddsSection ==
  /\ pipe.fn = "none" \/ ChunkInput
  /\ LET text == IF pipe.fn = "none" THEN <<>> ELSE pipe.text IN
     /\ Len(text) < MaxSections
     /\ \E section \in SectionsAt(Len(text) + 1) :
          pipe' = [fn |-> "chunkers", pc |-> "input", text |-> Append(text, section)]

\* The content blocks of handle_approve for the text.
ApproveChunks ==
  /\ ChunkInput
  /\ pipe' = [fn |-> "chunkers", pc |-> "done", handler |-> "handle_approve",
              text |-> pipe.text, blocks |-> ApproveContentBlocks(pipe.text)]

\* The content blocks of handle_edit_submission for the text.
SubmitChunks ==
  /\ ChunkInput
  /\ pipe' = [fn |-> "chunkers", pc |-> "done", handler |-> "handle_edit_submission",
              text |-> pipe.text, blocks |-> SubmitContentBlocks(pipe.text)]

NextChunkers ==
  \/ EditorAddsSection /\ UNCHANGED <<vars, tvars, cvars, mvars, bvars>>
  \/ ApproveChunks /\ UNCHANGED <<vars, tvars, cvars, mvars, bvars>>
  \/ SubmitChunks /\ UNCHANGED <<vars, tvars, cvars, mvars, bvars>>

SpecChunkers == Init /\ [][NextChunkers]_allvars

\* ---------------------------------------------------------------- pipeline
GONG_COMPETITORS == <<"MedScout", "Definitive Healthcare", "RepSignal">>
COMPETITORS == GONG_COMPETITORS

\* str.lower() on the letters.
LowerOf ==
  [ch \in {"A", "B", "C", "D", "E", "F", "G", "H", "I", "J", "K", "L", "M", "N", "O", "P",
           "Q", "R", "S", "T", "U", "V", "W", "X", "Y", "Z"} |->
     CASE ch = "A" -> "a" [] ch = "B" -> "b" [] ch = "C" -> "c" [] ch = "D" -> "d"
       [] ch = "E" -> "e" [] ch = "F" -> "f" [] ch = "G" -> "g" [] ch = "H" -> "h"
       [] ch = "I" -> "i" [] ch = "J" -> "j" [] ch = "K" -> "k" [] ch = "L" -> "l"
       [] ch = "M" -> "m" [] ch = "N" -> "n" [] ch = "O" -> "o" [] ch = "P" -> "p"
       [] ch = "Q" -> "q" [] ch = "R" -> "r" [] ch = "S" -> "s" [] ch = "T" -> "t"
       [] ch = "U" -> "u" [] ch = "V" -> "v" [] ch = "W" -> "w" [] ch = "X" -> "x"
       [] ch = "Y" -> "y" [] ch = "Z" -> "z"]

RECURSIVE Lower(_)
\* str.lower()
Lower(s) ==
  IF Len(s) = 0 THEN ""
  ELSE LET ch == SubSeq(s, 1, 1)
       IN  (IF ch \in DOMAIN LowerOf THEN LowerOf[ch] ELSE ch) \o Lower(SubSeq(s, 2, Len(s)))

\* sub in s
Contains(s, sub) ==
  \E i \in 1 .. (Len(s) - Len(sub) + 1) : SubSeq(s, i, i + Len(sub) - 1) = sub

\* The speaker ids of all parties, whatever their affiliation.
AllSpeakerIds(parties) ==
  {parties[i].speakerId : i \in {j \in DOMAIN parties : Truthy(parties[j].speakerId)}}

\* external_speaker_ids: the speaker ids of the parties with affiliation External.
ExternalSpeakerIds(parties) ==
  {parties[i].speakerId : i \in {j \in DOMAIN parties :
      Truthy(parties[j].speakerId) /\ parties[j].affiliation = "External"}}

\* speaker_map.get(speaker_id, {"name": "Unknown", "affiliation": "External"}):
\* a later party with the same speaker id replaces an earlier one.
SpeakerInfo(parties, speaker_id) ==
  LET idx == {i \in DOMAIN parties : parties[i].speakerId = speaker_id /\ Truthy(speaker_id)}
  IN  IF idx = {} THEN [name |-> "Unknown", affiliation |-> "External"]
      ELSE LET p == parties[CHOOSE i \in idx : \A j \in idx : j <= i]
           IN  [name |-> Get(p.name, "Unknown"), affiliation |-> Get(p.affiliation, "Unknown")]

\* " ".join([s.get("text", "") for s in text])
FullText(segment) ==
  JoinStr([i \in DOMAIN segment.sentences |-> Get(segment.sentences[i].text, "")], " ")

\* Only the first name of COMPETITORS found in the text.
FirstMentionedCompetitor(full_text) ==
  LET found == SelectSeq(COMPETITORS, LAMBDA comp : Contains(Lower(full_text), Lower(comp)))
  IN  IF found = <<>> THEN <<>> ELSE <<found[1]>>

\* mentioned_competitors: the names of COMPETITORS found in the text, in the
\* order of COMPETITORS.
MentionedCompetitors(full_text) ==
  LET text_lower == Lower(full_text)
  IN  SelectSeq(COMPETITORS, LAMBDA comp : Contains(text_lower, Lower(comp)))

RECURSIVE RelevantSegments(_, _)
\* relevant_segments: one entry for each segment of the transcript spoken by
\* an external speaker and naming a competitor.
RelevantSegments(parties, transcript) ==
  IF transcript = <<>> THEN <<>>
  ELSE LET segment == transcript[1]
           full_text == FullText(segment)
           mentioned == MentionedCompetitors(full_text)
           info == SpeakerInfo(parties, segment.speakerId)
       IN  (IF segment.speakerId \in ExternalSpeakerIds(parties) /\ mentioned # <<>>
            THEN <<[speaker |-> info.name, affiliation |-> info.affiliation,
                    text |-> full_text, competitors_mentioned |-> mentioned]>>
            ELSE <<>>)
           \o RelevantSegments(parties, Tail(transcript))

\* A loop over the calls that writes a context for every call with a transcript.
CallContextsWithEmpty(calls, transcripts, clean) ==
  LET Context(call) ==
        [call_id |-> IF clean THEN CleanCallId(call.metaData.id) ELSE call.metaData.id,
         title |-> Get(call.metaData.title, "Untitled Call"),
         date |-> Get(call.metaData.started, ""),
         segments |-> RelevantSegments(call.parties, transcripts[call.metaData.id])]
      with == SelectSeq(calls, LAMBDA call : call.metaData.id \in DOMAIN transcripts)
  IN  [i \in DOMAIN with |-> Context(with[i])]

RECURSIVE CallContexts(_, _, _)
\* The loop over the calls of build_call_context; clean tells whether the
\* module at hand cleans the call id it writes into the context.
CallContexts(calls, transcripts, clean) ==
  IF calls = <<>> THEN <<>>
  ELSE LET call == calls[1]
           call_id == call.metaData.id
           relevant_segments ==
             IF Truthy(call_id) /\ call_id \in DOMAIN transcripts
             THEN RelevantSegments(call.parties, transcripts[call_id]) ELSE <<>>
       IN  (IF relevant_segments # <<>>
            THEN <<[call_id |-> IF clean THEN CleanCallId(call_id) ELSE call_id,
                    title |-> Get(call.metaData.title, "Untitled Call"),
                    date |-> Get(call.metaData.started, ""),
                    segments |-> relevant_segments]>>
            ELSE <<>>)
           \o CallContexts(Tail(calls), transcripts, clean)

\* build_call_context of slack_competitor_bot.py
build_call_context(calls, transcripts) ==
  CallContexts(calls, transcripts, TRUE)

\* build_call_context of competitor_insights_bot.py
insights_bot_build_call_context(calls, transcripts) ==
  CallContexts(calls, transcripts, FALSE)

\* The parties Gong lists for a call: an external speaker, an internal one, one
\* without affiliation, and an external party without speaker id.
PartiesOfCall ==
  <<[speakerId |-> "s1", name |-> "Pat Prospect", affiliation |-> "External"],
    [speakerId |-> "s2", name |-> "Ian Rep", affiliation |-> "Internal"],
    [speakerId |-> "s3", name |-> "Una Known", affiliation |-> Missing],
    [speakerId |-> Missing, name |-> "Dial-in", affiliation |-> "External"]>>

\* A call record of the calls/extensive response.
GongCall(id) ==
  [metaData |-> [id |-> id, title |-> "Call " \o id, started |-> "2026-10-27T15:00:00Z"],
   parties |-> PartiesOfCall]

\* The calls Gong returns: their ids (one with a title after a pipe, one
\* missing) and whether Gong has a transcript for them.
CallKinds ==
  { [id |-> "7781", transcript |-> TRUE], [id |-> "7782|Renewal call", transcript |-> TRUE],
    [id |-> "7790", transcript |-> FALSE], [id |-> Missing, transcript |-> FALSE] }

\* The sentences of the transcript segments, with the competitor names a
\* reader finds in them (names is not read by the program).
SaysBoth == [sentences |-> <<[text |-> "We compared MEDSCOUT"], [text |-> "and repsignal."]>>,
             names |-> {"MedScout", "RepSignal"}]
SaysOne == [sentences |-> <<[text |-> "Definitive"], [text |-> "healthcare has more data"]>>,
            names |-> {"Definitive Healthcare"}]
SaysNone == [sentences |-> <<[text |-> "Pricing was fine."]>>, names |-> {}]

Spoken(speakerId, said) ==
  [speakerId |-> speakerId, sentences |-> said.sentences, names |-> said.names]

\* The transcript segments Gong returns; speaker s9 is no party of the call.
SegmentKinds ==
  { Spoken("s1", SaysBoth), Spoken("s1", SaysOne), Spoken("s1", SaysNone),
    Spoken("s2", SaysBoth), Spoken("s3", SaysOne), Spoken("s9", SaysBoth) }

\* The arguments of the call of build_call_context being put together.
PipeCalls == IF pipe.fn = "none" THEN <<>> ELSE pipe.calls
PipeTranscripts == IF pipe.fn = "none" THEN <<>> ELSE pipe.transcripts
PipeSize ==
  LET RECURSIVE Total(_)
      Total(ids) == IF ids = {} THEN 0
                    ELSE LET id == CHOOSE x \in ids : TRUE
                         IN  Len(PipeTranscripts[id]) + Total(ids \ {id})
  IN  Len(PipeCalls) + Total(DOMAIN PipeTranscripts)
PipeInput == pipe.fn = "none" \/ (pipe.fn = "build_call_context" /\ pipe.pc = "input")

\* fetch_calls_from_gong has returned one more call, with or without a
\* transcript in what fetch_transcripts returned.
GongAddsCall ==
  /\ PipeInput
  /\ PipeSize < MaxItems
  /\ \E kind \in CallKinds :
       pipe' = [fn |-> "build_call_context", pc |-> "input",
                calls |-> Append(PipeCalls, GongCall(kind.id)),
                transcripts |->
                  IF kind.transcript /\ kind.id \notin DOMAIN PipeTranscripts
                  THEN DictSet(PipeTranscripts, kind.id, <<>>)
                  ELSE PipeTranscripts]

\* The transcript of the latest call has one more segment.
GongAddsSegment ==
  /\ PipeInput
  /\ PipeSize < MaxItems
  /\ PipeCalls # <<>>
  /\ LET id == PipeCalls[Len(PipeCalls)].metaData.id IN
     /\ id \in DOMAIN PipeTranscripts
     /\ \E segment \in SegmentKinds :
          pipe' = [pipe EXCEPT !.transcripts =
                     DictSet(PipeTranscripts, id, Append(PipeTranscripts[id], segment))]

\* build_call_context(calls, transcripts), in either module that defines it.
BuildCallContext ==
  /\ PipeInput
  /\ \E module \in {"slack_competitor_bot", "competitor_insights_bot"} :
       pipe' = [fn |-> "build_call_context", pc |-> "done", module |-> module,
                calls |-> PipeCalls, transcripts |-> PipeTranscripts,
                result |-> IF module = "slack_competitor_bot"
                           THEN build_call_context(PipeCalls, PipeTranscripts)
                           ELSE insights_bot_build_call_context(PipeCalls, PipeTranscripts)]

\* ------------------------------------------------ fetch_calls_from_gong
\* The opaque cursor Gong hands out for page k of a window.
CursorOf(k) == "cursor-" \o ToString(k)

\* The windows of calls at Gong: the number of calls on each page, and what the
\* records of the last page carry as cursor (none, or an empty one).
Windows ==
  { [sizes |-> sizes, last_cursor |-> c] :
      sizes \in UNION {[1 .. n -> 0 .. 2] : n \in 1 .. MaxPages}, c \in {Missing, ""} }

\* The calls on page k of the window.
PageCalls(window, k) ==
  [j \in 1 .. window.sizes[k] |-> GongCall(ToString(100 * k + j))]

RECURSIVE PagesUpTo(_, _)
\* The calls of pages 1 .. k of the window, in order.
PagesUpTo(window, k) ==
  IF k = 0 THEN <<>> ELSE PagesUpTo(window, k - 1) \o PageCalls(window, k)

\* The page a request with this cursor (or without one) asks for.
PageOf(window, cursor) ==
  IF ~Truthy(cursor) THEN 1
  ELSE CHOOSE k \in DOMAIN window.sizes : CursorOf(k) = cursor

\* The body of a 200 response of calls/extensive.
CallsResponse(window, cursor) ==
  LET k == PageOf(window, cursor)
  IN  [calls |-> PageCalls(window, k),
       records |-> [cursor |-> IF k < Len(window.sizes) THEN CursorOf(k + 1)
                               ELSE window.last_cursor]]

FetchingCalls == pipe.fn = "fetch_calls_from_gong" /\ pipe.pc = "loop"

\* fetch_calls_from_gong(from_date, to_date) is called, in either module that
\* defines it: all_calls = [], cursor = None.
FetchCallsFromGong ==
  /\ pipe.fn = "none"
  /\ \E module \in {"slack_competitor_bot", "competitor_insights_bot"}, window \in Windows :
       pipe' = [fn |-> "fetch_calls_from_gong", pc |-> "loop", module |-> module,
                window |-> window, cursor |-> Missing, all_calls |-> <<>>,
                requests |-> <<>>, ended |-> "no"]

\* One turn of the while loop: the request with the cursor kept from the
\* previous response, then the response, which has status 200 or another
\* status, unless requests.post raises.
FetchCallsPage ==
  /\ FetchingCalls
  /\ LET sent == Append(pipe.requests, IF Truthy(pipe.cursor) THEN pipe.cursor ELSE Missing)
     IN  \E outcome \in {"200", "500", "raise"} :
           CASE outcome = "raise" ->
                  pipe' = [pipe EXCEPT !.requests = sent, !.pc = "raised", !.ended = "raise"]
             [] outcome = "500" ->
                  pipe' = [pipe EXCEPT !.requests = sent, !.pc = "done", !.ended = "status"]
             [] outcome = "200" ->
                  LET data == CallsResponse(pipe.window, pipe.cursor)
                      cursor == data.records.cursor
                  IN  pipe' = [pipe EXCEPT !.requests = sent,
                                           !.all_calls = pipe.all_calls \o data.calls,
                                           !.cursor = cursor,
                                           !.pc = IF ~Truthy(cursor) THEN "done" ELSE "loop",
                                           !.ended = IF ~Truthy(cursor) THEN "cursor" ELSE "no"]

\* ---------------------------------------------------- fetch_transcripts
\* The id of the p-th call of the week.
CallIdAt(p) == ToString(7000 + p)

\* What Gong has recorded for a call.
TranscriptOf(call_id) ==
  <<[speakerId |-> "s1", sentences |-> <<[text |-> "Transcript of call " \o call_id]>>]>>

\* Whether Gong has a transcript for a call: for every call, or for the calls
\* at the odd places of the week only.
HasTranscript(recorded, call_id) ==
  recorded = "all" \/ \E p \in 1 .. (MaxBatches * batch_size + 1) :
                         p % 2 = 1 /\ CallIdAt(p) = call_id

\* The callTranscripts of a 200 response for a batch of call ids.
CallTranscripts(recorded, batch_ids) ==
  LET with == SelectSeq(batch_ids, LAMBDA call_id : HasTranscript(recorded, call_id))
  IN  [k \in DOMAIN with |-> [callId |-> with[k], transcript |-> TranscriptOf(with[k])]]

\* for call_transcript in data.get("callTranscripts", []):
\*     transcripts[call_id] = transcript
\* (the last entry of the response for a call id is the one that stays)
StoreTranscripts(transcripts, callTranscripts) ==
  LET At(call_id) == {k \in DOMAIN callTranscripts : callTranscripts[k].callId = call_id}
  IN  [call_id \in DOMAIN transcripts \cup {callTranscripts[k].callId : k \in DOMAIN callTranscripts} |->
         IF At(call_id) = {} THEN transcripts[call_id]
         ELSE callTranscripts[CHOOSE k \in At(call_id) : \A j \in At(call_id) : j <= k].transcript]

\* call_ids[i:i + batch_size], i counted from 0 as in the code
BatchIds(call_ids, i) ==
  SubSeq(call_ids, i + 1, IF i + batch_size < Len(call_ids) THEN i + batch_size
                          ELSE Len(call_ids))

\* A loop that gives up at the first batch answered with another status.
FetchTranscriptsStopAtFailure(st, status) ==
  LET batch_ids == BatchIds(st.call_ids, st.i)
      asked == Append(st.batches, [ids |-> batch_ids, status |-> status])
  IN  IF status # "200"
      THEN [st EXCEPT !.batches = asked, !.pc = "done"]
      ELSE [st EXCEPT !.batches = asked,
                      !.transcripts = StoreTranscripts(st.transcripts,
                                        CallTranscripts(st.recorded, batch_ids)),
                      !.i = st.i + batch_size,
                      !.pc = IF st.i + batch_size < Len(st.call_ids) THEN "loop" ELSE "done"]

\* One turn of the for loop over range(0, len(call_ids), batch_size): the
\* request for the batch at i and its response.
FetchTranscriptsTurn(st, status) ==
  LET batch_ids == BatchIds(st.call_ids, st.i)
      asked == Append(st.batches, [ids |-> batch_ids, status |-> status])
      more == st.i + batch_size < Len(st.call_ids)
  IN  [st EXCEPT !.batches = asked,
                 !.transcripts = IF status # "200" THEN st.transcripts
                                 ELSE StoreTranscripts(st.transcripts,
                                        CallTranscripts(st.recorded, batch_ids)),
                 !.i = st.i + batch_size,
                 !.pc = IF more THEN "loop" ELSE "done"]

\* fetch_transcripts(call_ids) is called: an empty list returns {} at once.
FetchTranscripts ==
  /\ pipe.fn = "none"
  /\ \E n \in 0 .. (MaxBatches * batch_size + 1), recorded \in {"all", "odd"} :
       pipe' = [fn |-> "fetch_transcripts", pc |-> IF n = 0 THEN "done" ELSE "loop",
                call_ids |-> [p \in 1 .. n |-> CallIdAt(p)], recorded |-> recorded,
                i |-> 0, transcripts |-> <<>>, batches |-> <<>>]

\* The next batch is requested; Gong answers 200 or another status, unless
\* requests.post raises, which ends fetch_transcripts by that exception.
FetchTranscriptsBatch ==
  /\ pipe.fn = "fetch_transcripts" /\ pipe.pc = "loop"
  /\ \/ \E status \in {"200", "500"} : pipe' = FetchTranscriptsTurn(pipe, status)
     \/ pipe' = [pipe EXCEPT !.pc = "raised"]

\* -------------------------------------------------------- get_date_range
\* A datetime is its day, counted from a Monday (day 0), and its time of day.
DateTime(day, hour, minute, second, microsecond) ==
  [day |-> day, hour |-> hour, minute |-> minute, second |-> second,
   microsecond |-> microsecond]

\* datetime.weekday(): Monday = 0.
Weekday(dt) == dt.day % 7

\* dt - timedelta(days=days, seconds=seconds): the microsecond stays.
MinusDelta(dt, days, seconds) ==
  LET total == (dt.day - days) * 86400 + dt.hour * 3600 + dt.minute * 60 + dt.second
                 - seconds
      of_day == total % 86400
  IN  DateTime(total \div 86400, of_day \div 3600, (of_day % 3600) \div 60, of_day % 60,
               dt.microsecond)

\* get_date_range of the chat bot at the time now: the two datetimes whose
\* ISO forms it returns.
get_date_range(now) ==
  LET days_since_monday == Weekday(now)
      current_week_monday == MinusDelta(now, days_since_monday, 0)
      prev_week_monday == MinusDelta(current_week_monday, 7, 0)
      prev_week_sunday == MinusDelta(current_week_monday, 0, 1)
      from_date == DateTime(prev_week_monday.day, 0, 0, 0, 0)
      to_date == DateTime(prev_week_sunday.day, 23, 59, 59, 999999)
  IN  <<from_date, to_date>>

\* The times of day at which the function is called: the first instant and the
\* first second of a day, its second second, the hour of the weekly job, and
\* its last instant.
TimesOfDay ==
  { DateTime(0, 0, 0, 0, 0), DateTime(0, 0, 0, 0, 500000), DateTime(0, 0, 0, 1, 0),
    DateTime(0, 9, 0, 0, 0), DateTime(0, 23, 59, 59, 999999) }

\* datetime.utcnow() in the second and the third week from day 0.
Nows == { [time EXCEPT !.day = day] : day \in 7 .. MaxDay, time \in TimesOfDay }

GetDateRange ==
  /\ pipe.fn = "none"
  /\ \E now \in Nows :
       pipe' = [fn |-> "get_date_range", pc |-> "done", now |-> now,
                result |-> get_date_range(now)]

\* ------------------------------------------------------- analyze_with_ai
\* How the synthesizer writes the call id of an insight: as the header of the
\* call gave it, followed by the title after a pipe, padded with blanks, as a
\* pipe and the title only, or not at all.
IdStyles == {"as_given", "titled", "padded", "title_only", "missing"}

\* The insight objects of a response body: one for each call of the prompt.
InsightsFor(call_contexts, style) ==
  [k \in DOMAIN call_contexts |->
     LET ctx == call_contexts[k]
     IN  [competitor |-> ctx.segments[1].competitors_mentioned[1],
          category |-> "Pricing", summary |-> "Mentioned on " \o ctx.title,
          quote |-> Missing, sentiment |-> "Neutral",
          call_title |-> ctx.title, call_date |-> ctx.date,
          call_id |-> CASE style = "as_given" -> ctx.call_id
                        [] style = "titled" -> ctx.call_id \o "|" \o ctx.title
                        [] style = "padded" -> " " \o ctx.call_id \o " | " \o ctx.title
                        [] style = "title_only" -> "|" \o ctx.title
                        [] OTHER -> Missing]]

\* The bodies of the synthesizer's response: text that is no JSON, a JSON
\* number, an object without insight list, an object or a list with insight
\* objects, and a list of strings.
ResponseBodies(call_contexts) ==
  { [kind |-> "text"], [kind |-> "number"], [kind |-> "object_without_list"],
    [kind |-> "list_of_strings"],
    [kind |-> "list", insights |-> InsightsFor(call_contexts, "titled")] }
  \cup { [kind |-> "object", insights |-> InsightsFor(call_contexts, style)] :
           style \in IdStyles }

\* The cleaning loop over the insights of the response.
CleanInsights(insights) ==
  [k \in DOMAIN insights |->
     IF Truthy(insights[k].call_id)
     THEN [insights[k] EXCEPT !.call_id = CleanCallId(insights[k].call_id)]
     ELSE insights[k]]

\* What analyze_with_ai would return without the cap on the list.
analyze_with_ai_uncapped(call_contexts, body) ==
  IF call_contexts = <<>> THEN [raised |-> FALSE, insights |-> <<>>]
  ELSE CASE body.kind \in {"object", "list"} ->
              [raised |-> FALSE, insights |-> CleanInsights(body.insights)]
         [] body.kind = "list_of_strings" -> [raised |-> TRUE, insights |-> <<>>]
         [] OTHER -> [raised |-> FALSE, insights |-> <<>>]

\* What analyze_with_ai makes of the response body: the list it returns, or
\* the exception it ends with.
analyze_with_ai(call_contexts, body) ==
  IF call_contexts = <<>> THEN [raised |-> FALSE, insights |-> <<>>]
  ELSE CASE body.kind \in {"object", "list"} ->
              LET insights == CleanInsights(body.insights)
              IN  [raised |-> FALSE,
                   insights |-> SubSeq(insights, 1, IF Len(insights) < 6 THEN Len(insights) ELSE 6)]
         [] body.kind = "list_of_strings" -> [raised |-> TRUE, insights |-> <<>>]
         [] OTHER -> [raised |-> FALSE, insights |-> <<>>]

\* analyze_with_ai(call_contexts) on what build_call_context returned: the
\* synthesizer answers with a body, or the request raises.
AnalyzeWithAi ==
  /\ pipe.fn = "build_call_context" /\ pipe.pc = "done"
  /\ pipe.module = "slack_competitor_bot"
  /\ \/ \E body \in ResponseBodies(pipe.result) :
          LET out == analyze_with_ai(pipe.result, body)
          IN  pipe' = [fn |-> "analyze_with_ai",
                       pc |-> IF out.raised THEN "raised" ELSE "done",
                       call_contexts |-> pipe.result, body |-> body,
                       result |-> out.insights]
     \/ /\ pipe.result # <<>>
        /\ pipe' = [fn |-> "analyze_with_ai", pc |-> "raised",
                    call_contexts |-> pipe.result, body |-> [kind |-> "none"],
                    result |-> <<>>]

\* -------------------------------------------------- rendering a digest
\* The competitor an insight of the synthesizer is about: a name of the display
\* order, a name that is not in it, or none (Missing: the synthesizer left
\* the key out).
InsightCompetitors ==
  {"Veeva Systems", "Definitive Healthcare", "MedScout", "RepSignal", "Doximity", Missing}

\* Insight lists of the synthesizer, by the competitors they are about.
InsightLists ==
  UNION { {[i \in 1 .. n |-> [InsightA EXCEPT !.competitor = comps[i]]] :
             comps \in [1 .. n -> InsightCompetitors]} : n \in 0 .. MaxInsights }

\* A bullet list longer than the three bullets synthesize_intel lets through.
FourBullets ==
  [k \in 1 .. 4 |-> [bullet |-> "Veeva signal " \o ToString(k), source_url |-> Missing]]

\* The maps the renderers are given: every tracked competitor with a list of
\* bullets, possibly empty, one of them possibly with four bullets, and the
\* empty map that stands for None.
IntelMaps ==
  { m \in [Range(MARKET_INTEL_COMPETITORS) -> {<<>>, <<BulletA>>, FourBullets}] :
      \A c \in DOMAIN m : Len(m[c]) > 1 => c = "Veeva Systems" }
  \cup {<<>>}

\* The sentiment the synthesizer writes into an insight: one of the three
\* values of the prompt, another word, or none (Missing: no such key).
Sentiments ==
  {"Favorable to AcuityMD", "Unfavorable to AcuityMD", "Neutral", "Mixed", Missing}

\* Insight lists about one tracked competitor, by their sentiments.
SentimentLists ==
  { <<[InsightA EXCEPT !.sentiment = sentiment]>> : sentiment \in Sentiments }
  \cup { <<[InsightA EXCEPT !.sentiment = "Mixed"], InsightA>> }

\* format_slack_blocks and format_digest_as_text on the same inputs, as
\* format_approval_message calls them.
FormatDigest ==
  /\ pipe.fn = "none"
  /\ \E insights \in InsightLists \cup SentimentLists, market_intel \in IntelMaps :
       pipe' = [fn |-> "format_digest", pc |-> "done",
                insights |-> insights, market_intel |-> market_intel,
                blocks |-> format_slack_blocks(insights, DateRange, market_intel),
                text |-> format_digest_as_text(insights, DateRange, market_intel)]

\* The functions of the pipeline, each called on its own or on the result of
\* the one before.
NextPipeline ==
  \/ GongAddsCall /\ UNCHANGED <<vars, tvars, cvars, mvars, bvars>>
  \/ GongAddsSegment /\ UNCHANGED <<vars, tvars, cvars, mvars, bvars>>
  \/ BuildCallContext /\ UNCHANGED <<vars, tvars, cvars, mvars, bvars>>
  \/ FetchCallsFromGong /\ UNCHANGED <<vars, tvars, cvars, mvars, bvars>>
  \/ FetchCallsPage /\ UNCHANGED <<vars, tvars, cvars, mvars, bvars>>
  \/ FetchTranscripts /\ UNCHANGED <<vars, tvars, cvars, mvars, bvars>>
  \/ FetchTranscriptsBatch /\ UNCHANGED <<vars, tvars, cvars, mvars, bvars>>
  \/ AnalyzeWithAi /\ UNCHANGED <<vars, tvars, cvars, mvars, bvars>>
  \/ FormatDigest /\ UNCHANGED <<vars, tvars, cvars, mvars, bvars>>
  \/ GetDateRange /\ UNCHANGED <<vars, tvars, cvars, mvars, bvars>>

SpecPipeline == Init /\ [][NextPipeline]_allvars

\* ---------------------------------------------------------------- triggers
\* The allow-list of handle_manual_trigger, with its default value.
APPROVER_USER_IDS == {"U072X3EDC7Q"}
\* The users who type the slash command: the approver and somebody else.
Users == {"U072X3EDC7Q", "U0OTHER0001"}

RefusalText == "Sorry, only the designated approver can trigger the competitor insights bot."
GeneratingText == "Generating competitor insights... You'll receive a DM shortly for review."

\* str(uuid.uuid4()): the values uuid4 gives in the model, two of which start
\* with the same eight characters.
Uuids == {"3f2a9c1e-7b4d-4e1a", "3f2a9c1e-0c55-4d2f", "a81b07d4-7b4d-4e1a"}

\* str(uuid.uuid4())[:8]
DigestIdOf(uuid) == SubSeq(uuid, 1, 8)

\* A run of generate_and_send_digest at its first statement.
NewRun(kind, user) ==
  [n |-> nTriggers + 1, kind |-> kind, user |-> user, pc |-> "pipeline",
   input |-> [insights |-> <<>>, market_intel |-> NoIntel], digest_id |-> Missing]

\* main: the weekly job fires in a thread of the scheduler (APScheduler starts
\* no second instance of a job while one is running).
ScheduledJob ==
  /\ nTriggers < MaxTriggers
  /\ \A r \in runs : r.kind # "scheduled"
  /\ runs' = runs \cup {NewRun("scheduled", Missing)}
  /\ nTriggers' = nTriggers + 1
  /\ UNCHANGED <<store, reviews, ephemerals, issued>>

\* A slash command handler that starts the generation for whoever typed it.
ManualTriggerForAnyone ==
  /\ nTriggers < MaxTriggers
  /\ \E user \in Users, ok \in BOOLEAN :
       /\ ephemerals' = Append(ephemerals,
                          [n |-> nTriggers + 1, user |-> user, text |-> GeneratingText,
                           ok |-> ok])
       /\ runs' = IF ok THEN runs \cup {NewRun("manual", user)} ELSE runs
  /\ nTriggers' = nTriggers + 1
  /\ UNCHANGED <<store, reviews, issued>>

\* handle_manual_trigger in a listener thread: the allow-list test, the
\* ephemeral answer, and the call of generate_and_send_digest.
ManualTrigger ==
  /\ nTriggers < MaxTriggers
  /\ \E user \in Users, ok \in BOOLEAN :
       IF user \notin APPROVER_USER_IDS
       THEN /\ ephemerals' = Append(ephemerals,
                               [n |-> nTriggers + 1, user |-> user, text |-> RefusalText,
                                ok |-> ok])
            /\ UNCHANGED runs
       ELSE /\ ephemerals' = Append(ephemerals,
                               [n |-> nTriggers + 1, user |-> user, text |-> GeneratingText,
                                ok |-> ok])
            /\ runs' = IF ok THEN runs \cup {NewRun("manual", user)} ELSE runs
  /\ nTriggers' = nTriggers + 1
  /\ UNCHANGED <<store, reviews, issued>>

\* generate_and_send_digest up to format_approval_message: the insights and
\* the market intel of the week.
RunPipeline(run) ==
  /\ run.pc = "pipeline"
  /\ \E input \in DigestInputs :
       runs' = (runs \ {run}) \cup {[run EXCEPT !.pc = "format", !.input = input]}
  /\ UNCHANGED <<store, reviews, ephemerals, issued, nTriggers>>

\* format_approval_message: the id cut from a new uuid, and the entry stored
\* under it.
RunFormat(run) ==
  /\ run.pc = "format"
  /\ \E uuid \in Uuids :
       LET digest_id == DigestIdOf(uuid) IN
       /\ \A i \in DOMAIN issued : issued[i].uuid # uuid
       /\ issued' = Append(issued, [uuid |-> uuid, digest_id |-> digest_id, n |-> run.n])
       /\ store' = DictSet(store, digest_id,
                           NewEntry(run.input.insights, DateRange, run.input.market_intel))
       /\ runs' = (runs \ {run}) \cup {[run EXCEPT !.pc = "post", !.digest_id = digest_id]}
  /\ UNCHANGED <<reviews, ephemerals, nTriggers>>

\* generate_and_send_digest: the review message is posted, and the entry is
\* removed again when the post fails.
RunPost(run) ==
  /\ run.pc = "post"
  /\ \E ok \in BOOLEAN :
       IF ok
       THEN /\ reviews' = Append(reviews,
                 [channel |-> APPROVAL_CHANNEL, text |-> ReviewText, n |-> run.n,
                  blocks |-> format_approval_message(run.input.insights, DateRange,
                                                     run.input.market_intel, run.digest_id)])
            /\ UNCHANGED store
       ELSE /\ store' = DictPop(store, run.digest_id)
            /\ UNCHANGED reviews
  /\ runs' = runs \ {run}
  /\ UNCHANGED <<ephemerals, issued, nTriggers>>

\* The weekly job runs in the scheduler's thread and every slash command in a
\* listener thread: any run in flight may take its next step.
NextTrigger ==
  \/ ScheduledJob /\ UNCHANGED <<vars, pvars, cvars, mvars, bvars>>
  \/ ManualTrigger /\ UNCHANGED <<vars, pvars, cvars, mvars, bvars>>
  \/ (\E run \in runs : RunPipeline(run)) /\ UNCHANGED <<vars, pvars, cvars, mvars, bvars>>
  \/ (\E run \in runs : RunFormat(run)) /\ UNCHANGED <<vars, pvars, cvars, mvars, bvars>>
  \/ (\E run \in runs : RunPost(run)) /\ UNCHANGED <<vars, pvars, cvars, mvars, bvars>>

SpecTrigger == Init /\ [][NextTrigger]_allvars

\* --------------------------------------- the first generation cycle in steps
\* What Gong holds for the week: no call, a call without transcript, a call
\* in which no competitor is named, a call with a mention, two such calls.
Weeks ==
  { [calls |-> <<>>, transcripts |-> <<>>],
    [calls |-> <<GongCall("7781")>>, transcripts |-> <<>>],
    [calls |-> <<GongCall("7781")>>,
     transcripts |-> DictSet(<<>>, "7781", <<Spoken("s1", SaysNone)>>)],
    [calls |-> <<GongCall("7781")>>,
     transcripts |-> DictSet(<<>>, "7781", <<Spoken("s1", SaysBoth)>>)],
    [calls |-> <<GongCall("7781"), GongCall("7782|Renewal call")>>,
     transcripts |-> DictSet(DictSet(<<>>, "7781", <<Spoken("s1", SaysBoth)>>),
                             "7782|Renewal call", <<Spoken("s1", SaysOne)>>)] }

\* n insight objects of a response, numbered in the order of the response and
\* spread over the calls of the prompt.
ReturnedInsights(call_contexts, n) ==
  [k \in 1 .. n |->
     LET ctx == call_contexts[((k - 1) % Len(call_contexts)) + 1]
     IN  [competitor |-> ctx.segments[1].competitors_mentioned[1],
          category |-> "Pricing", summary |-> "Insight " \o ToString(k) \o ".",
          quote |-> Missing, sentiment |-> "Neutral",
          call_title |-> ctx.title, call_date |-> ctx.date, call_id |-> ctx.call_id]]

\* The response bodies of the synthesizer in a cycle: the malformed ones, and
\* an object with a list of 0 .. MaxReturned insights.
CycleBodies(call_contexts) ==
  { [kind |-> "text"], [kind |-> "number"], [kind |-> "object_without_list"],
    [kind |-> "list_of_strings"] }
  \cup { [kind |-> "object", insights |-> ReturnedInsights(call_contexts, n)] :
           n \in 0 .. MaxReturned }

\* The response bodies of the market-intel synthesizer: the malformed ones,
\* and objects that give some competitors a list of bullets or another value.
IntelBodies ==
  { [kind |-> "text"], [kind |-> "number"], [kind |-> "object_without_list"],
    [kind |-> "list_of_strings"] }
  \cup { [kind |-> "object", result |-> result] :
           result \in { [c \in {"Veeva Systems"} |-> [type |-> "list", items |-> <<BulletA>>]],
                        [c \in {"Veeva Systems"} |-> [type |-> "list", items |-> FourBullets]],
                        [c \in {"IQVIA"} |-> [type |-> "string", items |-> <<>>]] } }

\* synthesize_intel without the cap on the lists.
synthesize_intel_uncapped(body) ==
  CASE body.kind = "object" ->
         [raised |-> FALSE, caught |-> FALSE,
          intel |-> [c \in Range(MARKET_INTEL_COMPETITORS) |->
                       IF c \in DOMAIN body.result /\ body.result[c].type = "list"
                       THEN body.result[c].items
                       ELSE <<>>]]
    [] body.kind = "object_without_list" ->
         [raised |-> FALSE, caught |-> FALSE, intel |-> NoIntel]
    [] OTHER -> [raised |-> FALSE, caught |-> TRUE, intel |-> NoIntel]

\* synthesize_intel on a response body: json.loads, then for every tracked
\* competitor the first three elements of its list, or [] when the key is
\* missing or its value is no list; whatever is raised on the way is caught
\* and gives the map of empty lists.
synthesize_intel(body) ==
  CASE body.kind = "object" ->
         [raised |-> FALSE, caught |-> FALSE,
          intel |-> [c \in Range(MARKET_INTEL_COMPETITORS) |->
                       IF c \in DOMAIN body.result /\ body.result[c].type = "list"
                       THEN SubSeq(body.result[c].items, 1,
                                   IF Len(body.result[c].items) < 3
                                   THEN Len(body.result[c].items) ELSE 3)
                       ELSE <<>>]]
    [] body.kind = "object_without_list" ->
         [raised |-> FALSE, caught |-> FALSE, intel |-> NoIntel]
    [] OTHER -> [raised |-> FALSE, caught |-> TRUE, intel |-> NoIntel]

\* The maps get_market_intel returns.
CycleIntel == {NoIntel} \cup {synthesize_intel(body).intel : body \in IntelBodies}

CycleAt(pc) == cycle.pc = pc

\* generate_and_send_digest is called by the scheduler or by the slash
\* command, for the first time since the process started: the date range of
\* the week.
CycleStart ==
  /\ cycle.pc = "idle"
  /\ nTriggers' = nTriggers + 1
  /\ cycle' = [n |-> nTriggers + 1, pc |-> "fetch", call_contexts |-> <<>>,
               asked |-> FALSE, error |-> "none", body |-> [kind |-> "none"],
               intel_body |-> [kind |-> "none"], intel_path |-> "none", fetched |-> {},
               week |-> [calls |-> <<>>, transcripts |-> <<>>],
               insights |-> <<>>, market_intel |-> <<>>, digest_id |-> Missing,
               posted |-> FALSE]
  /\ UNCHANGED <<runs, store, reviews, ephemerals, issued>>

\* generate_and_send_digest without its test for call contexts: analyze_with_ai
\* is called whatever build_call_context returned.
CycleFetchAlwaysAnalyze ==
  /\ CycleAt("fetch")
  /\ \/ \E week \in Weeks :
          LET call_contexts == IF week.calls = <<>> THEN <<>>
                               ELSE build_call_context(week.calls, week.transcripts)
          IN  cycle' = [cycle EXCEPT !.week = week,
                                     !.call_contexts = call_contexts,
                                     !.pc = "analyze"]
     \/ cycle' = [cycle EXCEPT !.pc = "raised", !.error = "gong"]
  /\ UNCHANGED tvars

\* fetch_calls_from_gong, fetch_transcripts and build_call_context: without
\* calls or without call contexts the insights are [] and analyze_with_ai is
\* not called; a request to Gong that raises ends the cycle.
CycleFetch ==
  /\ CycleAt("fetch")
  /\ \/ \E week \in Weeks :
          LET call_contexts == IF week.calls = <<>> THEN <<>>
                               ELSE build_call_context(week.calls, week.transcripts)
          IN  cycle' = [cycle EXCEPT !.week = week,
                                     !.call_contexts = call_contexts,
                                     !.pc = IF call_contexts # <<>> THEN "analyze" ELSE "intel"]
     \/ cycle' = [cycle EXCEPT !.pc = "raised", !.error = "gong"]
  /\ UNCHANGED tvars

\* insights = analyze_with_ai(call_contexts): the request to the synthesizer
\* raises (a rate limit, or another API error), or its response body is read.
\* Nothing in generate_and_send_digest catches what analyze_with_ai raises.
CycleAnalyze ==
  /\ CycleAt("analyze")
  /\ \/ /\ cycle.call_contexts # <<>>
        /\ \E error \in {"rate_limit", "api_error"} :
             cycle' = [cycle EXCEPT !.asked = TRUE, !.pc = "raised", !.error = error]
     \/ \E body \in CycleBodies(cycle.call_contexts) :
          LET out == analyze_with_ai(cycle.call_contexts, body)
          IN  cycle' = [cycle EXCEPT !.asked = cycle.call_contexts # <<>>, !.body = body,
                                     !.insights = out.insights,
                                     !.pc = IF out.raised THEN "raised" ELSE "intel",
                                     !.error = IF out.raised THEN "attribute_error" ELSE "none"]
  /\ UNCHANGED tvars

\* What fetch_competitor_updates can bring back: the competitors for which at
\* least one source page was fetched.
FetchedSources ==
  {{}, {"Veeva Systems"}, Range(MARKET_INTEL_COMPETITORS)}

\* What the request of synthesize_intel ends in: an error, or a response body.
SynthesisOutcomes == {[kind |-> "request_raised"]} \cup IntelBodies

\* get_market_intel: without a fetched source the map of empty lists is
\* returned and synthesize_intel is not called; else its result is returned.
get_market_intel(fetched, outcome) ==
  IF Cardinality(fetched) = 0
  THEN [asked |-> FALSE, intel |-> NoIntel]
  ELSE [asked |-> TRUE, intel |-> synthesize_intel(outcome).intel]

\* market_intel = get_market_intel(OPENAI_API_KEY), or {} when it raises.
CycleMarketIntel ==
  /\ CycleAt("intel")
  /\ \/ \E fetched \in FetchedSources, outcome \in SynthesisOutcomes :
          LET out == get_market_intel(fetched, outcome)
          IN  /\ ~out.asked => outcome.kind = "request_raised"
              /\ cycle' = [cycle EXCEPT
                   !.fetched = fetched,
                   !.intel_path = IF out.asked THEN "synthesized" ELSE "no_source",
                   !.intel_body = IF out.asked THEN outcome ELSE @,
                   !.market_intel = out.intel,
                   !.pc = "format"]
     \/ cycle' = [cycle EXCEPT !.intel_path = "raised", !.market_intel = <<>>,
                               !.pc = "format"]
  /\ UNCHANGED tvars

\* format_approval_message: the id cut from a new uuid, and the entry stored
\* under it.
CycleFormat ==
  /\ CycleAt("format")
  /\ \E uuid \in Uuids :
       LET digest_id == DigestIdOf(uuid) IN
       /\ \A i \in DOMAIN issued : issued[i].uuid # uuid
       /\ issued' = Append(issued, [uuid |-> uuid, digest_id |-> digest_id, n |-> cycle.n])
       /\ store' = DictSet(store, digest_id,
                           NewEntry(cycle.insights, DateRange, cycle.market_intel))
       /\ cycle' = [cycle EXCEPT !.pc = "post", !.digest_id = digest_id]
  /\ UNCHANGED <<runs, reviews, ephemerals, nTriggers>>

\* The review message is posted; the entry is removed again when the post
\* fails.
CyclePost ==
  /\ CycleAt("post")
  /\ \E ok \in BOOLEAN :
       /\ IF ok
          THEN /\ reviews' = Append(reviews,
                    [channel |-> APPROVAL_CHANNEL, text |-> ReviewText, n |-> cycle.n,
                     blocks |-> format_approval_message(cycle.insights, DateRange,
                                                        cycle.market_intel, cycle.digest_id)])
               /\ UNCHANGED store
          ELSE /\ store' = DictPop(store, cycle.digest_id)
               /\ UNCHANGED reviews
       /\ cycle' = [cycle EXCEPT !.pc = "returned", !.posted = ok]
  /\ UNCHANGED <<runs, ephemerals, issued, nTriggers>>

NextCycle ==
  \/ CycleStart /\ UNCHANGED <<vars, pvars, mvars, bvars>>
  \/ CycleFetch /\ UNCHANGED <<vars, pvars, mvars, bvars>>
  \/ CycleAnalyze /\ UNCHANGED <<vars, pvars, mvars, bvars>>
  \/ CycleMarketIntel /\ UNCHANGED <<vars, pvars, mvars, bvars>>
  \/ CycleFormat /\ UNCHANGED <<vars, pvars, mvars, bvars>>
  \/ CyclePost /\ UNCHANGED <<vars, pvars, mvars, bvars>>

SpecCycle == Init /\ [][NextCycle]_allvars

\* ------------------------------------------------ the weekly monitor scripts
\* main of competitor_monitor.py and of acuitymd_competitor_monitor.py: every
\* competitor is scanned through api_call_with_retry, the findings are
\* synthesized into a brief through the same helper, and the brief is saved
\* and printed or mailed.
MonitorScripts == {"competitor_monitor", "acuitymd_competitor_monitor"}

MonitorCompetitors(script) ==
  IF script = "competitor_monitor"
  THEN <<"Cursor", "GitHub Copilot", "Windsurf", "Cline", "Aider">>
  ELSE <<"Veeva Systems (MedTech Cloud)", "Definitive Healthcare", "Alpha Sophia",
         "IQVIA MedTech", "Carevoyance (by Definitive Healthcare)", "MedScout",
         "RepSignal (S2N Health)">>

\* for attempt in range(5)
RetryAttempts == 5
\* wait = 30 * (attempt + 1)
BackoffSeconds == 30

\* What one invocation of fn() does: it returns a response with or without a
\* text block, raises RateLimitError, or raises another error.
FnOutcomes == {"text", "no_text", "rate_limit", "api_error"}

\* The dash of the source text is written "-" here.
SkippedFindings == "Skipped - rate limit exceeded after retries."
NoFindings == "No findings returned."
BriefError == "Error: Could not synthesize brief due to rate limits. Raw findings saved."

\* The locals of api_call_with_retry on entry, with a log of what it did.
NewCall(label) ==
  [label |-> label, attempt |-> 0, calls |-> 0, waits |-> <<>>, outcomes |-> <<>>,
   state |-> "running", result |-> "none"]

\* main up to the first scan: without CLAUDE_API_KEY the error is printed and
\* the script exits with status 1 before a client is made.
MonitorStart ==
  /\ monitor.pc = "idle"
  /\ \E script \in MonitorScripts, dry_run \in BOOLEAN, api_key \in BOOLEAN :
       monitor' = [script |-> script, pc |-> IF api_key THEN "scan" ELSE "no_key",
                   api_key |-> api_key, reports |-> IF api_key THEN 0 ELSE 1,
                   dry_run |-> dry_run, i |-> 1,
                   results |-> <<>>, brief |-> "", report |-> "", delivered |-> "no",
                   call |-> NewCall(MonitorCompetitors(script)[1])]

\* One pass of the loop of api_call_with_retry: fn() is invoked; its response
\* is returned, a RateLimitError is followed by a sleep of 30 * (attempt + 1)
\* seconds and the next pass, any other error leaves the function, the caller
\* and main.  After the sleep of the last pass the loop is over and None is
\* returned.
ApiAttempt ==
  /\ monitor.pc \in {"scan", "synthesize"}
  /\ monitor.call.state = "running"
  /\ monitor.call.attempt < RetryAttempts
  /\ \E outcome \in FnOutcomes :
       LET called == [monitor.call EXCEPT !.calls = @ + 1,
                                          !.outcomes = Append(@, outcome)]
           wait == BackoffSeconds * (monitor.call.attempt + 1)
           slept == [called EXCEPT !.waits = Append(@, wait), !.attempt = @ + 1]
       IN \/ /\ outcome \in {"text", "no_text"}
             /\ monitor' = [monitor EXCEPT
                  !.call = [called EXCEPT !.state = "returned", !.result = outcome]]
          \/ /\ outcome = "rate_limit"
             /\ monitor' = [monitor EXCEPT
                  !.call = IF slept.attempt < RetryAttempts
                           THEN slept
                           ELSE [slept EXCEPT !.state = "returned", !.result = "None"]]
          \/ /\ outcome = "api_error"
             /\ monitor' = [monitor EXCEPT
                  !.call = [called EXCEPT !.state = "raised"], !.pc = "raised"]

\* scan_competitor after the helper has returned, and the loop of main.
ScanFindings(name, result) ==
  IF result = "None" THEN SkippedFindings
  ELSE IF result = "text" THEN "Findings on " \o name
  ELSE NoFindings

ScanReturn ==
  /\ monitor.pc = "scan"
  /\ monitor.call.state = "returned"
  /\ LET names == MonitorCompetitors(monitor.script)
         result == [name |-> names[monitor.i],
                    findings |-> ScanFindings(names[monitor.i], monitor.call.result)]
     IN monitor' = [monitor EXCEPT
          !.results = Append(@, result),
          !.i = @ + 1,
          !.pc = IF monitor.i < Len(names) THEN "scan" ELSE "synthesize",
          !.call = IF monitor.i < Len(names)
                   THEN NewCall(names[monitor.i + 1])
                   ELSE NewCall("synthesis")]

\* synthesize_brief after the helper has returned, and save_report.
BriefText(result) ==
  IF result = "None" THEN BriefError
  ELSE IF result = "text" THEN "Competitor Brief"
  ELSE ""

BriefReturn ==
  /\ monitor.pc = "synthesize"
  /\ monitor.call.state = "returned"
  /\ monitor' = [monitor EXCEPT !.brief = BriefText(monitor.call.result),
                                !.report = BriefText(monitor.call.result),
                                !.pc = "deliver"]

\* The brief is printed on a dry run and mailed otherwise; the script exits
\* with status 1 when the mail cannot be sent, which is also where a missing
\* mail credential (GMAIL_APP_PASSWORD, RESEND_API_KEY) is found.
MonitorDeliver ==
  /\ monitor.pc = "deliver"
  /\ \E mail_key \in BOOLEAN, sent \in BOOLEAN :
       /\ monitor.dry_run => mail_key /\ sent
       /\ ~mail_key => ~sent
       /\ monitor' = [monitor EXCEPT
            !.delivered = IF monitor.dry_run THEN "printed"
                          ELSE IF sent THEN "emailed"
                          ELSE IF mail_key THEN "no" ELSE "no_mail_key",
            !.pc = IF sent THEN "done" ELSE "exit_1"]

NextMonitor ==
  \/ MonitorStart /\ UNCHANGED <<vars, tvars, pvars, cvars, bvars>>
  \/ ApiAttempt /\ UNCHANGED <<vars, tvars, pvars, cvars, bvars>>
  \/ ScanReturn /\ UNCHANGED <<vars, tvars, pvars, cvars, bvars>>
  \/ BriefReturn /\ UNCHANGED <<vars, tvars, pvars, cvars, bvars>>
  \/ MonitorDeliver /\ UNCHANGED <<vars, tvars, pvars, cvars, bvars>>

SpecMonitor == Init /\ [][NextMonitor]_allvars

\* ------------------------------------------------- the start of the chat bot
\* The module-level configuration and main of slack_competitor_bot.py.
Credentials ==
  {"GONG_ACCESS_KEY", "GONG_SECRET_KEY", "OPENAI_API_KEY", "SLACK_BOT_TOKEN",
   "SLACK_APP_TOKEN"}

\* The import of the module: every credential is read with os.environ.get and
\* the default "", and nothing is checked.
BootImport ==
  /\ boot.pc = "idle"
  /\ \E env \in SUBSET Credentials, test \in BOOLEAN :
       boot' = [pc |-> "app", env |-> env, test |-> test, reports |-> 0,
                scheduler |-> FALSE, handler |-> FALSE, external |-> <<>>]

\* app = App(token=SLACK_BOT_TOKEN): with a token the chat platform's library
\* is handed it; with the empty token the library either refuses it, which
\* ends the import with its error, or goes on.
BootApp ==
  /\ boot.pc = "app"
  /\ \/ boot' = [boot EXCEPT !.pc = "main"]
     \/ /\ "SLACK_BOT_TOKEN" \notin boot.env
        /\ boot' = [boot EXCEPT !.pc = "raised"]

\* main: the scheduler is set up with the weekly job and started.
BootScheduler ==
  /\ boot.pc = "main"
  /\ boot' = [boot EXCEPT !.scheduler = TRUE,
                          !.pc = IF boot.test THEN "test" ELSE "handler"]

\* main with --test: generate_and_send_digest runs at once; its first step is
\* the request to Gong with the credentials as they are, and what it raises
\* leaves main.
BootTestDigest ==
  /\ boot.pc = "test"
  /\ \E raised \in BOOLEAN :
       boot' = [boot EXCEPT !.external = Append(@, "gong"),
                            !.pc = IF raised THEN "raised" ELSE "handler"]

\* main: the Socket Mode handler is made with SLACK_APP_TOKEN and started.
BootHandler ==
  /\ boot.pc = "handler"
  /\ \E connected \in BOOLEAN :
       boot' = [boot EXCEPT !.handler = TRUE,
                            !.external = Append(@, "slack_socket"),
                            !.pc = IF connected THEN "serving" ELSE "raised"]

NextStartup ==
  \/ BootImport /\ UNCHANGED <<vars, tvars, pvars, cvars, mvars>>
  \/ BootApp /\ UNCHANGED <<vars, tvars, pvars, cvars, mvars>>
  \/ BootScheduler /\ UNCHANGED <<vars, tvars, pvars, cvars, mvars>>
  \/ BootTestDigest /\ UNCHANGED <<vars, tvars, pvars, cvars, mvars>>
  \/ BootHandler /\ UNCHANGED <<vars, tvars, pvars, cvars, mvars>>

SpecStartup == Init /\ [][NextStartup]_allvars

\* ------------------------------------------------------------- properties
\* The calls of an invocation that satisfy a test.
CallsOf(inv, Test(_)) == {i \in DOMAIN inv.calls : Test(inv.calls[i])}

\* The invocation posted a report to the target channel and the post succeeded.
Published(inv) ==
  CallsOf(inv, LAMBDA c : c.call = "chat_postMessage" /\ c.channel = TARGET_CHANNEL /\ c.ok) # {}
\* The invocation asked for a message to be rewritten to the notice `text`.
Rewrote(inv, text) == CallsOf(inv, LAMBDA c : c.call = "chat_update" /\ c.text = text) # {}
\* The invocation rewrote the message it was clicked on to the notice `text`.
RewroteClicked(inv, text) ==
  CallsOf(inv, LAMBDA c : c.call = "chat_update" /\ c.text = text /\ c.ok
                          /\ c.channel = inv.channel_id /\ c.ts = inv.message_ts) # {}
\* The invocation posted the plain notice `text` to the channel of the click.
Noticed(inv, text) ==
  CallsOf(inv, LAMBDA c : c.call = "chat_postMessage" /\ c.channel = inv.channel_id
                          /\ c.text = text /\ c.blocks = <<>>) # {}

\* The step taken is a step of invocation inv.
StepOf(inv) == inv \in running /\ inv \notin running'

RECURSIVE Squash(_)
\* A string without its white space.
Squash(str) ==
  IF Len(str) = 0 THEN ""
  ELSE IF IsWhite(SubSeq(str, 1, 1)) THEN Squash(SubSeq(str, 2, Len(str)))
  ELSE SubSeq(str, 1, 1) \o Squash(SubSeq(str, 2, Len(str)))

\* The content blocks of a published edited report: what lies between its
\* three opening blocks and its two closing blocks.
EditedContent(blocks) == SubSeq(blocks, 4, Len(blocks) - 2)

\* The blocks show the free text: one block with the text itself when it fits
\* a block, else blocks that give the text back when joined, white space aside.
ShowsText(content, text) ==
  IF TextLen(text) <= MaxChars
  THEN Len(content) = 1 /\ content[1].text = Whole(text, "---").body
       /\ content[1].len = TextLen(text)
  ELSE Squash(JoinStr([i \in DOMAIN content |-> content[i].text], "---"))
         = Squash(Whole(text, "---").body)

\* C1: an approve that found its id has, when it returns, published the digest
\* and rewritten the clicked review message to the approved notice, and the id
\* is out of the store, whatever the chat platform answered to the calls.
C1_ApproveAlwaysRemoves ==
  (last.op = "approve" /\ last.found) =>
     /\ Published(last)
     /\ RewroteClicked(last, ApprovedText)
     /\ last.digest_id \notin keys

\* C2: the step of an approve whose id is not in the store posts the expiry
\* notice to the channel of the click and nothing else, and leaves the target
\* channel and the store as they were.
C2_ApproveExpired ==
  [][\A inv \in running :
       (StepOf(inv) /\ inv.op = "approve" /\ inv.pc = "lookup" /\ inv.digest_id \notin keys)
       => /\ last'.n = inv.n /\ ~last'.found
          /\ Len(last'.calls) = 1
          /\ Noticed(last', ExpiredText)
          /\ last'.channel_id = messages[inv.message_ts].channel
          /\ ~Published(last')
          /\ published' = published
          /\ keys' = keys /\ objs' = objs]_vars

\* C2 witness: an approve has returned on the expiry path.
C2_Witness == last.op = "approve" /\ ~last.found /\ Noticed(last, ExpiredText)

\* C3: a dismiss that finds its id rewrites the clicked message to the dismissed
\* notice and removes the entry; a dismiss whose id is not in the store reports
\* expiry and rewrites no message.
C3_DismissTwiceExpires ==
  /\ (last.op = "dismiss" /\ last.found) =>
        Rewrote(last, DismissedText) /\ last.digest_id \notin keys
  /\ (last.op = "dismiss" /\ ~last.found) =>
        Noticed(last, ExpiredText) /\ ~Rewrote(last, DismissedText)

\* C4: an approve that found its id has published the text of the latest
\* submission for that id when there was one (the empty text included) and
\* the original structured digest otherwise, and the id is out of the store.
C4_ApprovePublishesLatestEdit ==
  (last.op = "approve" /\ last.found) =>
     LET data == objs[last.digest_id]
         sent == {i \in DOMAIN last.calls : last.calls[i].channel = TARGET_CHANNEL
                                            /\ last.calls[i].ok}
     IN  /\ Cardinality(sent) = 1
         /\ \A i \in sent :
              IF submitted[last.digest_id] # <<>>
              THEN ShowsText(EditedContent(last.calls[i].blocks), submitted[last.digest_id][1])
              ELSE last.calls[i].blocks =
                     format_slack_blocks(data.insights, data.date_range, data.market_intel)
                     \o SubSeq(last.calls[i].blocks, Len(last.calls[i].blocks) - 1,
                               Len(last.calls[i].blocks))
         /\ last.digest_id \notin keys

\* C5: an edit that found its id seeds the modal with the text of the latest
\* submission for that id when there was one (the empty text included) and
\* with the text rendered at creation otherwise.
C5_EditSeedsLatestEdit ==
  (last.op = "edit" /\ last.found) =>
     LET data == objs[last.digest_id]
         opened == CallsOf(last, LAMBDA c : c.call = "views_open")
     IN  /\ opened # {}
         /\ \A i \in opened :
              last.calls[i].value =
                IF submitted[last.digest_id] # <<>> THEN submitted[last.digest_id][1]
                ELSE format_digest_as_text(data.insights, data.date_range, data.market_intel)

\* The fields of a stored entry that make up the digest's state.
DigestState(data) ==
  [insights |-> data.insights, date_range |-> data.date_range,
   market_intel |-> data.market_intel, editable_text |-> data.editable_text,
   has_edited_text |-> data.has_edited_text, edited_text |-> data.edited_text]

\* C6: the step of an edit whose id is in the store leaves the set of stored
\* ids and, in every entry, the insights, date range, market intel,
\* pre-rendered text and edited override as they were, whether the modal
\* opens or not.
C6_EditKeepsDigestState ==
  [][\A inv \in running :
       (StepOf(inv) /\ inv.op = "edit" /\ inv.digest_id \in keys)
       => /\ last'.n = inv.n /\ last'.found
          /\ keys' = keys
          /\ DOMAIN objs' = DOMAIN objs
          /\ \A id \in DOMAIN objs : DigestState(objs'[id]) = DigestState(objs[id])]_vars

\* C6 witness: an edit has returned for a stored id after the modal failed to
\* open, and the entry holds the reference of the clicked message.
C6_Witness ==
  /\ last.op = "edit" /\ last.found
  /\ Noticed(last, ModalFailedText)
  /\ objs[last.digest_id].message_ts = last.message_ts

\* The buttons of the blocks all carry the digest id.
ButtonsCarry(blocks, digest_id) ==
  /\ \E i \in DOMAIN blocks : blocks[i].elements # <<>>
  /\ \A i \in DOMAIN blocks : \A j \in DOMAIN blocks[i].elements :
       blocks[i].elements[j].value = digest_id

\* C7: a submission whose id is in the store first stores its text as the
\* override and goes on to post; the post is one chat_postMessage (no
\* chat_update) of a review message whose buttons carry the same id, the
\* messages already there stay as they are, and when the post succeeds the
\* entry's message reference is the ts of the new message.
C7_SubmitRepostsAndTracks ==
  [][\A inv \in running :
       (StepOf(inv) /\ inv.op = "submit") =>
         /\ (inv.pc = "lookup" /\ inv.digest_id \in keys) =>
              /\ objs'[inv.digest_id].has_edited_text
              /\ objs'[inv.digest_id].edited_text = inv.text
              /\ \E next \in running' : next.n = inv.n /\ next.pc = "post"
         /\ inv.pc = "post" =>
              /\ last'.n = inv.n
              /\ Len(last'.calls) = 1
              /\ last'.calls[1].call = "chat_postMessage"
              /\ ButtonsCarry(last'.calls[1].blocks, inv.digest_id)
              /\ SubSeq(messages', 1, Len(messages)) = messages
              /\ last'.calls[1].ok =>
                   /\ Len(messages') = Len(messages) + 1
                   /\ messages'[Len(messages')].blocks = last'.calls[1].blocks
                   /\ last'.calls[1].ts = Len(messages')
                   /\ objs'[inv.digest_id].message_ts = Len(messages')
                   /\ objs'[inv.digest_id].edited_text = objs[inv.digest_id].edited_text]_vars

\* C7 witness: a submission has returned after posting the new review message,
\* with an earlier review message still there, and the entry points at the
\* new one.
C7_Witness ==
  /\ last.op = "submit" /\ last.found /\ ~last.raised
  /\ Len(messages) > 1
  /\ objs[last.digest_id].message_ts = Len(messages)
  /\ objs[last.digest_id].has_edited_text

\* C8: a listener that returns for an id that is not in the store has answered
\* the user with a message, has raised only if the chat platform failed, and
\* in edit and in the modal submission the answer is the expiry notice.
C8_NotFoundIsNoticed ==
  (last.op # "none" /\ ~last.found) =>
     /\ last.calls # <<>>
     /\ last.raised => \E i \in DOMAIN last.calls : ~last.calls[i].ok
     /\ last.op \in {"edit", "submit"} => Noticed(last, ExpiredText)

\* C9: the step of a listener that starts on an id no longer in the store
\* publishes nothing, posts no review message, asks for no message to be
\* rewritten to the approved or the dismissed notice, and leaves the store
\* as it is.
C9_TerminalIsFinal ==
  [][\A inv \in running :
       (StepOf(inv) /\ inv.pc = "lookup" /\ inv.digest_id \notin keys)
       => /\ published' = published
          /\ messages' = messages
          /\ keys' = keys
          /\ last'.n = inv.n
          /\ ~Rewrote(last', ApprovedText)
          /\ ~Rewrote(last', DismissedText)]_vars

\* C10: listeners running at the same time on one digest leave what some
\* serial order of them leaves; in every serial order a digest's review
\* message is rewritten to the approved notice, and its entry removed by
\* approve, at most once.
C10_ApproveOncePerDigest == \A id \in DigestIds : approved[id] <= 1

\* C11: at most one run of generate_and_send_digest is in flight at any time,
\* whether the weekly job or a slash command started it.
C11_OneGenerationAtATime == Cardinality(runs) <= 1

C13_DigestIdsUnique ==
  \A i, j \in DOMAIN issued : i # j => issued[i].digest_id # issued[j].digest_id

\* build_call_context has returned.
BuildDone == pipe.fn = "build_call_context" /\ pipe.pc = "done"

\* The segment's speaker is a party of the call with affiliation External.
ExternalSpeaker(call, segment) ==
  \E i \in DOMAIN call.parties :
     call.parties[i].speakerId = segment.speakerId /\ call.parties[i].affiliation = "External"

\* The segments of the call's transcript spoken by an external party and
\* naming at least one competitor, in the order of the transcript.
Qualifying(call, transcripts) ==
  IF call.metaData.id \in DOMAIN transcripts
  THEN SelectSeq(transcripts[call.metaData.id],
                 LAMBDA segment : ExternalSpeaker(call, segment) /\ segment.names # {})
  ELSE <<>>

\* The calls with at least one such segment, in the order of the input.
EmittingCalls(calls, transcripts) ==
  SelectSeq(calls, LAMBDA call : Qualifying(call, transcripts) # <<>>)

\* C14: the mentions build_call_context emits are, call by call and in order,
\* the transcript segments spoken by a party with affiliation External whose
\* text names a competitor of the list in any letter case; segments of
\* internal, unknown or unlisted speakers and segments naming nobody give
\* nothing.
C14_MentionIffExternalAndNamed ==
  BuildDone =>
    LET emitting == EmittingCalls(pipe.calls, pipe.transcripts)
    IN  /\ Len(pipe.result) = Len(emitting)
        /\ \A k \in DOMAIN pipe.result :
             LET q == Qualifying(emitting[k], pipe.transcripts)
                 mentions == pipe.result[k].segments
             IN  /\ Len(mentions) = Len(q)
                 /\ \A m \in DOMAIN mentions :
                      /\ mentions[m].text = FullText(q[m])
                      /\ mentions[m].speaker = "Pat Prospect"
                      /\ mentions[m].competitors_mentioned # <<>>

\* C14 witness: a transcript with a segment of the external speaker that names
\* a competitor and a segment of another speaker that names one too has given
\* one mention.
C14_Witness ==
  /\ BuildDone
  /\ Len(pipe.calls) = 1 /\ Len(pipe.result) = 1
  /\ pipe.calls[1].metaData.id \in DOMAIN pipe.transcripts
  /\ Len(pipe.transcripts[pipe.calls[1].metaData.id]) = 3
  /\ \E i \in 1 .. 3 :
       LET segment == pipe.transcripts[pipe.calls[1].metaData.id][i]
       IN  segment.speakerId # "s1" /\ segment.names # {}
  /\ Len(pipe.result[1].segments) = 1

\* C15: every mention carries all the competitor names that occur in its
\* segment, each once: a segment naming MedScout and RepSignal gives one mention
\* with exactly these two.
C15_MentionCarriesAllNames ==
  BuildDone =>
    LET emitting == EmittingCalls(pipe.calls, pipe.transcripts)
    IN  \A k \in DOMAIN pipe.result :
          k \in DOMAIN emitting =>
            LET q == Qualifying(emitting[k], pipe.transcripts)
                mentions == pipe.result[k].segments
            IN  \A m \in DOMAIN mentions :
                  m \in DOMAIN q =>
                    /\ Range(mentions[m].competitors_mentioned) = q[m].names
                    /\ Len(mentions[m].competitors_mentioned) = Cardinality(q[m].names)

\* C15 witness: one call with one external segment that names MedScout and
\* RepSignal has given one mention with both names.
C15_Witness ==
  /\ BuildDone
  /\ Len(pipe.calls) = 1
  /\ pipe.calls[1].metaData.id \in DOMAIN pipe.transcripts
  /\ pipe.transcripts[pipe.calls[1].metaData.id] = <<Spoken("s1", SaysBoth)>>
  /\ Len(pipe.result) = 1 /\ Len(pipe.result[1].segments) = 1
  /\ Range(pipe.result[1].segments[1].competitors_mentioned) = {"MedScout", "RepSignal"}

\* C16: no emitted call has an empty segment list; the emitted calls are the
\* input calls that have at least one qualifying segment, in input order, and
\* a call without transcript or without qualifying segment is not emitted.
C16_NoEmptyCallsInOrder ==
  BuildDone =>
    LET emitting == EmittingCalls(pipe.calls, pipe.transcripts)
    IN  /\ \A k \in DOMAIN pipe.result : pipe.result[k].segments # <<>>
        /\ Len(pipe.result) = Len(emitting)
        /\ \A k \in DOMAIN pipe.result :
             k \in DOMAIN emitting =>
               /\ pipe.result[k].title = emitting[k].metaData.title
               /\ pipe.result[k].date = emitting[k].metaData.started

\* C16 witness: of two calls the first, whose transcript has a segment but no
\* qualifying one, is left out, and the second is emitted.
C16_Witness ==
  /\ BuildDone
  /\ Len(pipe.calls) = 2
  /\ pipe.calls[1].metaData.id \in DOMAIN pipe.transcripts
  /\ pipe.transcripts[pipe.calls[1].metaData.id] # <<>>
  /\ pipe.calls[1].metaData.id # pipe.calls[2].metaData.id
  /\ Len(pipe.result) = 1
  /\ pipe.result[1].title = pipe.calls[2].metaData.title

FetchCallsDone == pipe.fn = "fetch_calls_from_gong" /\ pipe.pc = "done"

\* C17: fetch_calls_from_gong passes the cursor of the previous response with
\* every request after the first, returns only after a response without cursor
\* or with an empty one, and returns the calls of every page of the window in
\* order.
C17_CursorAloneEndsLoop ==
  FetchCallsDone =>
    /\ \A i \in DOMAIN pipe.requests :
         pipe.requests[i] = IF i = 1 THEN Missing ELSE CursorOf(i)
    /\ pipe.ended = "cursor"
    /\ pipe.all_calls = PagesUpTo(pipe.window, Len(pipe.window.sizes))

FetchTranscriptsDone == pipe.fn = "fetch_transcripts" /\ pipe.pc = "done"

\* The batches that hold the call id at place p of call_ids.
BatchesHolding(p) ==
  {b \in DOMAIN pipe.batches :
     \E k \in DOMAIN pipe.batches[b].ids :
        (b - 1) * batch_size + k = p /\ pipe.batches[b].ids[k] = pipe.call_ids[p]}

AnalyzeDone == pipe.fn = "analyze_with_ai" /\ pipe.pc = "done"

\* What follows the first occurrence of marker in text ("" if there is none).
AfterMarker(text, marker) ==
  LET at == {i \in 1 .. (Len(text) - Len(marker) + 1) :
               SubSeq(text, i, i + Len(marker) - 1) = marker}
  IN  IF at = {} THEN ""
      ELSE LET i == CHOOSE x \in at : \A y \in at : x <= y
           IN  SubSeq(text, i + Len(marker), Len(text))

\* The source links both renderers write for an insight.
SourceLinks(insight) ==
  {AfterMarker(InsightBlockText(insight), "https://app.gong.io/call?id=")}
  \cup {AfterMarker(InsightLines(insight)[k], "https://app.gong.io/call?id=") :
          k \in DOMAIN InsightLines(insight)}

\* C19: no call id in a call context that build_call_context returns, in an
\* insight that analyze_with_ai returns, or in a source link either renderer
\* writes for an insight (returned, or as the synthesizer wrote it) contains
\* '|', and cleaning a cleaned id changes nothing.
C19_NoPipeInCallIds ==
  /\ BuildDone =>
       \A k \in DOMAIN pipe.result :
          /\ ~Contains(pipe.result[k].call_id, "|")
          /\ CleanCallId(pipe.result[k].call_id) = pipe.result[k].call_id
  /\ AnalyzeDone =>
       /\ \A k \in DOMAIN pipe.result :
            Truthy(pipe.result[k].call_id) =>
              /\ ~Contains(pipe.result[k].call_id, "|")
              /\ CleanCallId(pipe.result[k].call_id) = pipe.result[k].call_id
       /\ \A k \in DOMAIN pipe.result :
            \A link \in SourceLinks(pipe.result[k]) \cup SourceLinks(pipe.body.insights[k]) :
               ~Contains(link, "|")

FormatDone == pipe.fn = "format_digest" /\ pipe.pc = "done"

\* The names a section heading can carry.
SectionNames == Range(ALL_COMPETITORS_ORDER) \cup {"Unknown"}

\* The competitor headings of a block rendering, in order.
BlockSections(blocks) ==
  LET heads == SelectSeq(blocks, LAMBDA b : b.type = "section" /\
                           \E c \in SectionNames : b.text = "*" \o c \o "*")
  IN  [k \in DOMAIN heads |-> CHOOSE c \in SectionNames : heads[k].text = "*" \o c \o "*"]

\* The competitor headings of a text rendering, in order.
TextSections(secs) ==
  LET Heading(c) == "\n*" \o c \o "*\n"
      heads == SelectSeq(secs, LAMBDA sec :
                 \E c \in SectionNames : Len(sec.body) >= Len(Heading(c))
                                         /\ SubSeq(sec.body, 1, Len(Heading(c))) = Heading(c))
  IN  [k \in DOMAIN heads |->
         CHOOSE c \in SectionNames : Len(heads[k].body) >= Len(Heading(c))
                                     /\ SubSeq(heads[k].body, 1, Len(Heading(c))) = Heading(c)]

\* The competitors of the fixed order with an insight or an intel bullet.
WithData(insights, market_intel) ==
  SelectSeq(ALL_COMPETITORS_ORDER,
            LAMBDA c : \/ \E i \in DOMAIN insights : insights[i].competitor = c
                       \/ (c \in DOMAIN market_intel /\ Len(market_intel[c]) >= 1))

\* The orders in which a list can be handed over.
Reorderings(list) ==
  {[i \in DOMAIN list |-> list[perm[i]]] :
     perm \in {f \in [DOMAIN list -> DOMAIN list] : \A i, j \in DOMAIN list : f[i] = f[j] => i = j}}

\* C20: in the blocks and in the text, the sections of the competitors of the
\* fixed display order are exactly those with an insight or an intel bullet,
\* in the fixed order; the sections are the same for every order of the
\* insight list, and rendering the same inputs again gives the same result.
C20_FixedDisplayOrder ==
  FormatDone =>
    LET Fixed(sections) == SelectSeq(sections, LAMBDA c : c \in Range(ALL_COMPETITORS_ORDER))
        expected == WithData(pipe.insights, pipe.market_intel)
    IN  /\ ALL_COMPETITORS_ORDER = <<"Veeva Systems", "Definitive Healthcare", "IQVIA",
                                     "MedScout", "RepSignal", "Alpha Sophia">>
        /\ Fixed(BlockSections(pipe.blocks)) = expected
        /\ Fixed(TextSections(pipe.text)) = expected
        /\ \A other \in Reorderings(pipe.insights) :
             /\ BlockSections(format_slack_blocks(other, DateRange, pipe.market_intel))
                  = BlockSections(pipe.blocks)
             /\ TextSections(format_digest_as_text(other, DateRange, pipe.market_intel))
                  = TextSections(pipe.text)
        /\ format_slack_blocks(pipe.insights, DateRange, pipe.market_intel) = pipe.blocks
        /\ format_digest_as_text(pipe.insights, DateRange, pipe.market_intel) = pipe.text

\* C20 witness: insights about RepSignal and then Veeva Systems, with an intel
\* bullet for IQVIA only, are rendered as Veeva Systems, IQVIA, RepSignal.
C20_Witness ==
  /\ FormatDone
  /\ Len(pipe.insights) = 2
  /\ pipe.insights[1].competitor = "RepSignal"
  /\ pipe.insights[2].competitor = "Veeva Systems"
  /\ BlockSections(pipe.blocks) = <<"Veeva Systems", "IQVIA", "RepSignal">>
  /\ TextSections(pipe.text) = <<"Veeva Systems", "IQVIA", "RepSignal">>

\* How often marker occurs in text.
Occurrences(text, marker) ==
  Cardinality({i \in 1 .. (Len(text) - Len(marker) + 1) :
                 SubSeq(text, i, i + Len(marker) - 1) = marker})

RECURSIVE SumOver(_)
SumOver(nums) == IF nums = <<>> THEN 0 ELSE nums[1] + SumOver(Tail(nums))

\* The insights shown in a block rendering and in a text rendering: every
\* insight is written with its category line, "_Pricing_" in the model.
InsightsInBlocks(blocks) ==
  Len(SelectSeq(blocks, LAMBDA b : b.type = "section" /\ Occurrences(b.text, " _Pricing_") > 0))
InsightsInText(secs) ==
  SumOver([k \in DOMAIN secs |-> Occurrences(secs[k].body, " _Pricing_\n")])

\* C21: every insight handed to the renderers is shown, in the blocks and in
\* the text, and a competitor outside the fixed display order that has an
\* insight has a section heading of its own.
C21_NoInsightDropped ==
  FormatDone =>
    /\ InsightsInBlocks(pipe.blocks) = Len(pipe.insights)
    /\ InsightsInText(pipe.text) = Len(pipe.insights)
    /\ \A i \in DOMAIN pipe.insights :
         LET heading == "*" \o CompetitorOf(pipe.insights[i]) \o "*"
         IN  /\ \E k \in DOMAIN pipe.blocks : pipe.blocks[k].text = heading
             /\ \E k \in DOMAIN pipe.text :
                  Occurrences(pipe.text[k].body, "\n" \o heading \o "\n") > 0

\* The intel bullets shown for a competitor in a block rendering and in a text
\* rendering: every bullet is written after a ":satellite: " marker.
BulletsInBlocks(blocks) ==
  Len(SelectSeq(blocks, LAMBDA b : b.type = "section" /\ Occurrences(b.text, ":satellite: ") > 0))
BulletsInText(secs) ==
  SumOver([k \in DOMAIN secs |-> Occurrences(secs[k].body, ":satellite: ")])

\* The bullets the renderers may show at most: three for each competitor.
CappedBullets(market_intel) ==
  LET names == SelectSeq(ALL_COMPETITORS_ORDER, LAMBDA c : c \in DOMAIN market_intel)
  IN  SumOver([k \in DOMAIN names |->
                 IF Len(market_intel[names[k]]) < 3 THEN Len(market_intel[names[k]]) ELSE 3])

\* C22: the renderers show at most three intel bullets for a competitor,
\* whatever the length of its list in the map.
C22_AtMostThreeBullets ==
  FormatDone =>
    /\ BulletsInBlocks(pipe.blocks) <= CappedBullets(pipe.market_intel)
    /\ BulletsInText(pipe.text) <= CappedBullets(pipe.market_intel)

\* What the synthesizer returned in the cycle: the insight objects of its body.
Returned == IF cycle.body.kind \in {"object", "list"} THEN cycle.body.insights ELSE <<>>

\* The numbers k for which "Insight k." is written in the blocks.
ShownInBlocks(blocks) ==
  {k \in 1 .. (MaxReturned + 1) :
     \E b \in DOMAIN blocks :
        Occurrences(blocks[b].text, "\n\nInsight " \o ToString(k) \o ".\n\n") > 0}

\* The numbers k for which "Insight k." is written in the editable text.
ShownInText(secs) ==
  {k \in 1 .. (MaxReturned + 1) :
     \E i \in DOMAIN secs :
        Occurrences(secs[i].body, "\nInsight " \o ToString(k) \o ".\n") > 0}

\* C23: the insights stored under the digest id are the first six the
\* synthesizer returned, in its order (all of them when it returned fewer),
\* and the stored text and the posted review message show exactly these.
C23_FirstSixStored ==
  LET n == IF Len(Returned) < 6 THEN Len(Returned) ELSE 6 IN
  /\ (CycleAt("post") \/ (CycleAt("returned") /\ cycle.posted)) =>
       /\ cycle.digest_id \in DOMAIN store
       /\ Len(store[cycle.digest_id].insights) = n
       /\ \A k \in 1 .. n : store[cycle.digest_id].insights[k] = Returned[k]
       /\ InsightsInText(store[cycle.digest_id].editable_text) = n
       /\ ShownInText(store[cycle.digest_id].editable_text) = 1 .. n
  /\ (CycleAt("returned") /\ cycle.posted) =>
       /\ InsightsInBlocks(reviews[Len(reviews)].blocks) = n
       /\ ShownInBlocks(reviews[Len(reviews)].blocks) = 1 .. n

\* C23 witness: the synthesizer returned seven insights, and six are stored
\* and shown in the review message that was posted.
C23_Witness ==
  /\ CycleAt("returned") /\ cycle.posted
  /\ Len(Returned) = 7
  /\ Len(store[cycle.digest_id].insights) = 6
  /\ ShownInBlocks(reviews[Len(reviews)].blocks) = 1 .. 6

\* text begins with prefix.
StartsWith(text, prefix) ==
  Len(text) >= Len(prefix) /\ SubSeq(text, 1, Len(prefix)) = prefix

\* The three sentiments an insight may show.
SentimentLabels == {"Favorable to AcuityMD", "Unfavorable to AcuityMD", "Neutral"}
SentimentMarkers == {":large_green_circle:", ":red_circle:", ":white_circle:"}

\* The sentiment labels written in a text rendering that are one of the three.
GoodLabelsInText(secs) ==
  SumOver([k \in DOMAIN secs |->
             Occurrences(secs[k].body, "\nSentiment: Favorable to AcuityMD\n")
             + Occurrences(secs[k].body, "\nSentiment: Unfavorable to AcuityMD\n")
             + Occurrences(secs[k].body, "\nSentiment: Neutral\n")])

\* C24: every insight is rendered, in the blocks with one of the three markers
\* and in the text with one of the three labels; an insight whose sentiment is
\* absent or another value has the Neutral marker and the Neutral label.
C24_SentimentOneOfThree ==
  (FormatDone /\ \A i \in DOMAIN pipe.insights : pipe.insights[i].competitor = "MedScout") =>
    /\ InsightsInBlocks(pipe.blocks) = Len(pipe.insights)
    /\ InsightsInText(pipe.text) = Len(pipe.insights)
    /\ \A k \in DOMAIN pipe.blocks :
         Occurrences(pipe.blocks[k].text, " _Pricing_") > 0 =>
           \E marker \in SentimentMarkers :
              StartsWith(pipe.blocks[k].text, marker \o " ")
    /\ GoodLabelsInText(pipe.text) = Len(pipe.insights)
    /\ \A i \in DOMAIN pipe.insights :
         pipe.insights[i].sentiment \notin SentimentLabels =>
           /\ \E k \in DOMAIN pipe.blocks :
                StartsWith(pipe.blocks[k].text, ":white_circle: _Pricing_")
           /\ \E k \in DOMAIN pipe.text :
                Occurrences(pipe.text[k].body,
                            ":white_circle: _Pricing_\nSentiment: Neutral\n") > 0

ChunksDone == pipe.fn = "chunkers" /\ pipe.pc = "done"

\* The places of the text whose section is not blank.
NonBlank(text) == {i \in DOMAIN text : Strip(text[i]).len > 0}

\* The places of the text whose section is written in the block.
SectionsIn(block, text) ==
  {i \in NonBlank(text) : Occurrences(block.text, SectionName(i)) > 0}

\* C25: a text of at most 2900 characters gives exactly one content block; a
\* text of two or more sections that is longer gives at least two; and a
\* block longer than 2900 characters holds a single section that alone is
\* longer.
C25_BlockCountAndSize ==
  ChunksDone =>
    /\ TextLen(pipe.text) <= MaxChars => Len(pipe.blocks) = 1
    /\ (TextLen(pipe.text) > MaxChars /\ Len(pipe.text) >= 2) => Len(pipe.blocks) >= 2
    /\ \A b \in DOMAIN pipe.blocks :
         pipe.blocks[b].len > MaxChars =>
           \E i \in DOMAIN pipe.text :
              /\ SectionsIn(pipe.blocks[b], pipe.text) = {i}
              /\ pipe.text[i].len > MaxChars
              /\ pipe.blocks[b].len = pipe.text[i].len

\* C26: every section that is not blank is written in exactly one block, once
\* and with all its characters; the sections keep their order across the
\* blocks; and a section longer than the limit is a block of its own.
C26_SectionsWhole ==
  ChunksDone =>
    /\ \A i \in NonBlank(pipe.text) :
         /\ Cardinality({b \in DOMAIN pipe.blocks : i \in SectionsIn(pipe.blocks[b], pipe.text)}) = 1
         /\ \A b \in DOMAIN pipe.blocks :
              Occurrences(pipe.blocks[b].text, SectionName(i)) <= 1
    /\ \A b \in DOMAIN pipe.blocks :
         LET held == SectionsIn(pipe.blocks[b], pipe.text)
             lens == [i \in DOMAIN pipe.text |-> IF i \in held THEN pipe.text[i].len ELSE 0]
         IN  /\ pipe.blocks[b].len >= SumOver(lens)
             /\ \A c \in DOMAIN pipe.blocks :
                  b < c => \A i \in held, j \in SectionsIn(pipe.blocks[c], pipe.text) : i < j
    /\ \A i \in NonBlank(pipe.text) :
         (pipe.text[i].len > MaxChars /\ TextLen(pipe.text) > MaxChars) =>
           \E b \in DOMAIN pipe.blocks :
              /\ SectionsIn(pipe.blocks[b], pipe.text) = {i}
              /\ pipe.blocks[b].len = pipe.text[i].len

\* C26 witness: a text of a short section, a section of 3000 characters and
\* another short one has given three blocks, the long section in the middle
\* one.
C26_Witness ==
  /\ ChunksDone
  /\ Len(pipe.text) = 3
  /\ pipe.text[1].len = 1400 /\ pipe.text[2].len = 3000 /\ pipe.text[3].len = 1400
  /\ Len(pipe.blocks) = 3
  /\ pipe.blocks[2].len = 3000

\* C27: every message posted to the review channel, by the generation and by
\* a submitted edit, has one actions block with the three buttons approve,
\* edit and dismiss, in this order, and the value of each is the id of the
\* digest the message is about.
C27_ThreeActionsCarryId ==
  [][Len(messages') > Len(messages) =>
       LET msg == messages'[Len(messages')]
           buttons == Buttons(msg)
           digest_id == IF created' > created THEN created' ELSE last'.digest_id
       IN  /\ Len(messages') = Len(messages) + 1
           /\ Cardinality({i \in DOMAIN msg.blocks : msg.blocks[i].type = "actions"}) = 1
           /\ Len(buttons) = 3
           /\ buttons[1].action_id = "approve_digest"
           /\ buttons[2].action_id = "edit_digest"
           /\ buttons[3].action_id = "dismiss_digest"
           /\ \A i \in 1 .. 3 : buttons[i].value = digest_id
           /\ digest_id \in 1 .. created']_vars

\* C27 witness: the review channel holds a review message re-posted after an
\* edit, with its three buttons, after the message of the generation.
C27_Witness ==
  /\ Len(messages) >= 2
  /\ messages[Len(messages)].text = EditedReviewText
  /\ Len(Buttons(messages[Len(messages)])) = 3
  /\ created >= 1

\* The call of api_call_with_retry in progress or last finished.
RetryCall == monitor.call
RetryStarted == monitor.pc # "idle"
\* The waits 30 * k before retry k, for the retries made so far.
BackoffSchedule(retries) == [k \in 1 .. retries |-> BackoffSeconds * k]
\* The invocations of a call but the last.
EarlierOutcomes(call) == SubSeq(call.outcomes, 1, Len(call.outcomes) - 1)

\* C28: api_call_with_retry invokes the call at most 5 times; every invocation
\* but the last was rate-limited and was followed by a wait of 30 * k seconds
\* before retry k (30, 60, 90, 120), and nothing else is waited for: a
\* response is returned, and another error leaves the function, right after
\* the invocation that produced it, and None is returned right after the fifth
\* rate-limited invocation, without a further wait.
C28_RetrySchedule ==
  RetryStarted =>
    /\ RetryCall.calls <= RetryAttempts
    /\ RetryCall.calls = Len(RetryCall.outcomes)
    /\ RetryCall.state = "running" =>
         /\ \A k \in 1 .. RetryCall.calls : RetryCall.outcomes[k] = "rate_limit"
         /\ RetryCall.waits = BackoffSchedule(RetryCall.calls)
    /\ RetryCall.state # "running" =>
         /\ RetryCall.calls >= 1
         /\ \A k \in 1 .. RetryCall.calls - 1 : RetryCall.outcomes[k] = "rate_limit"
         /\ RetryCall.waits = BackoffSchedule(RetryCall.calls - 1)
    /\ RetryCall.state = "raised" <=>
         RetryCall.calls >= 1 /\ RetryCall.outcomes[RetryCall.calls] = "api_error"
    /\ RetryCall.state = "returned" /\ RetryCall.result # "None" =>
         RetryCall.result = RetryCall.outcomes[RetryCall.calls]
           /\ RetryCall.result \in {"text", "no_text"}
    /\ RetryCall.state = "returned" /\ RetryCall.result = "None" =>
         /\ RetryCall.calls = RetryAttempts
         /\ RetryCall.outcomes[RetryAttempts] = "rate_limit"

\* What the loop does: as C28_RetrySchedule, but the fifth rate-limited
\* invocation is followed by a wait of 150 seconds before None is returned.
RetryScheduleOfLoop ==
  RetryStarted =>
    /\ RetryCall.calls <= RetryAttempts
    /\ RetryCall.calls = Len(RetryCall.outcomes)
    /\ RetryCall.state = "running" =>
         /\ \A k \in 1 .. RetryCall.calls : RetryCall.outcomes[k] = "rate_limit"
         /\ RetryCall.waits = BackoffSchedule(RetryCall.calls)
    /\ RetryCall.state # "running" =>
         /\ RetryCall.calls >= 1
         /\ \A k \in 1 .. RetryCall.calls - 1 : RetryCall.outcomes[k] = "rate_limit"
         /\ RetryCall.waits =
              BackoffSchedule(IF RetryCall.result = "None" THEN RetryCall.calls
                              ELSE RetryCall.calls - 1)
    /\ RetryCall.state = "raised" <=>
         RetryCall.calls >= 1 /\ RetryCall.outcomes[RetryCall.calls] = "api_error"
    /\ RetryCall.state = "returned" /\ RetryCall.result # "None" =>
         RetryCall.result = RetryCall.outcomes[RetryCall.calls]
           /\ RetryCall.result \in {"text", "no_text"}
    /\ RetryCall.state = "returned" /\ RetryCall.result = "None" =>
         /\ RetryCall.calls = RetryAttempts
         /\ RetryCall.outcomes[RetryAttempts] = "rate_limit"

\* A monitor run is past its scans.
ScansOver == monitor.pc \in {"synthesize", "deliver", "done", "exit_1"}
\* The scan or synthesis call of the monitor run gave up on rate limits.
GaveUp(call) == call.state = "returned" /\ call.result = "None"

\* The monitor scripts under rate limits: a rate limit never ends the run, the
\* results follow the competitor list one by one, a scan that gave up leaves
\* the skip note and the scans go on to the last competitor, and a brief is
\* produced and saved, the error text when the synthesis gave up.
MonitorDegrades ==
  monitor.pc # "idle" =>
    LET names == MonitorCompetitors(monitor.script) IN
    /\ monitor.pc = "raised" =>
         monitor.call.outcomes[Len(monitor.call.outcomes)] = "api_error"
    /\ Len(monitor.results) = monitor.i - 1
    /\ \A k \in 1 .. Len(monitor.results) :
         /\ monitor.results[k].name = names[k]
         /\ monitor.results[k].findings \in
              {SkippedFindings, NoFindings, "Findings on " \o names[k]}
    /\ ScansOver => Len(monitor.results) = Len(names)
    /\ monitor.pc \in {"deliver", "done", "exit_1"} =>
         /\ monitor.report = monitor.brief
         /\ GaveUp(monitor.call) <=> monitor.brief = BriefError

\* C29: a synthesis call that keeps being rate-limited degrades to an empty
\* result and the cycle goes on: in the generation cycle of the chat bot a
\* rate-limited insight synthesizer leaves an empty insight list and the cycle
\* is not ended by it, so the digest is still created and posted; in the
\* monitor scripts the remaining competitors are still scanned and the brief
\* is still produced.
C29_RateLimitDegrades ==
  /\ (cycle.pc # "idle" /\ cycle.error = "rate_limit") =>
       cycle.pc # "raised" /\ cycle.insights = <<>>
  /\ MonitorDegrades

\* The response bodies that are not an object with a list of objects.
MalformedKinds == {"text", "number", "object_without_list", "list_of_strings"}
\* A map of the tracked competitors to lists of at most three bullets.
ValidIntel(m) ==
  /\ DOMAIN m = Range(MARKET_INTEL_COMPETITORS)
  /\ \A c \in DOMAIN m : Len(m[c]) <= 3

\* C30: whatever body the synthesizer answers with, analyze_with_ai and
\* synthesize_intel return an empty or valid list and the generation cycle is
\* not ended by it: after a body has been read the cycle has not raised, a
\* malformed body of the insight synthesizer leaves no insights and any other
\* at most six, and a body of the market-intel synthesizer leaves a map of
\* lists of at most three bullets, all empty for a malformed body.
C30_MalformedBodiesNeverRaise ==
  cycle.pc # "idle" =>
    /\ cycle.body.kind # "none" =>
         /\ cycle.pc # "raised"
         /\ cycle.body.kind \in MalformedKinds => cycle.insights = <<>>
         /\ Len(cycle.insights) <= 6
    /\ cycle.intel_body.kind # "none" =>
         /\ cycle.pc # "raised"
         /\ ValidIntel(cycle.market_intel)
         /\ cycle.intel_body.kind \in MalformedKinds => cycle.market_intel = NoIntel

\* The part of C30 that the code keeps: every body but a list whose elements
\* are not objects, and every body of the market-intel synthesizer.
MalformedBodiesButStringLists ==
  cycle.pc # "idle" =>
    /\ (cycle.body.kind # "none" /\ cycle.body.kind # "list_of_strings") =>
         /\ cycle.pc # "raised"
         /\ cycle.body.kind \in MalformedKinds => cycle.insights = <<>>
         /\ Len(cycle.insights) <= 6
    /\ cycle.intel_body.kind # "none" =>
         /\ cycle.pc # "raised"
         /\ ValidIntel(cycle.market_intel)
         /\ cycle.intel_body.kind \in MalformedKinds => cycle.market_intel = NoIntel

\* A competitor is named somewhere in a block rendering or a text rendering.
NamedInBlocks(blocks, competitor) ==
  \E k \in DOMAIN blocks : Occurrences(blocks[k].text, competitor) > 0
NamedInText(secs, competitor) ==
  \E k \in DOMAIN secs : Occurrences(secs[k].body, competitor) > 0
\* The tracked competitors with neither an insight nor a bullet.
MissingCompetitors(insights, market_intel) ==
  SelectSeq(ALL_COMPETITORS_ORDER,
            LAMBDA c : GroupedGong(insights, c) = <<>> /\ IntelOf(market_intel, c) = <<>>)

\* C31: when some tracked competitors have data and others have none, the
\* rendered digest still shows every competitor without data, with an
\* indication that there is none, in the blocks and in the text.
C31_MissingCompetitorShown ==
  (FormatDone /\ ActiveCompetitors(pipe.insights, pipe.market_intel) # <<>>) =>
    LET missing == MissingCompetitors(pipe.insights, pipe.market_intel)
    IN  \A k \in DOMAIN missing :
          /\ NamedInBlocks(pipe.blocks, missing[k])
          /\ NamedInText(pipe.text, missing[k])

\* What the renderers do: a tracked competitor without data has no section
\* and is named nowhere in the digest.
MissingCompetitorLeftOut ==
  FormatDone =>
    LET missing == MissingCompetitors(pipe.insights, pipe.market_intel)
    IN  \A k \in DOMAIN missing :
          /\ ~NamedInBlocks(pipe.blocks, missing[k])
          /\ ~NamedInText(pipe.text, missing[k])

\* A credential the chat bot needs is missing from its environment.
CredentialMissing == boot.pc # "idle" /\ boot.env # Credentials

\* C32: with a required credential missing the chat bot reports it once and
\* exits before any external call and before the scheduler or the event
\* handler is started: once main is reached nothing has been started or
\* called, and the process has ended with exactly one report.
C32_MissingCredentialExits ==
  CredentialMissing =>
    /\ ~boot.scheduler
    /\ ~boot.handler
    /\ boot.external = <<>>
    /\ boot.pc \notin {"app", "main"} => boot.reports = 1

\* The monitor scripts without CLAUDE_API_KEY: one report, no client, no scan,
\* no call of the synthesizer, and nothing is retried.
MonitorWithoutKeyExits ==
  (monitor.pc # "idle" /\ ~monitor.api_key) =>
    /\ monitor.pc = "no_key"
    /\ monitor.reports = 1
    /\ monitor.call.calls = 0
    /\ monitor.results = <<>>

\* Every call context has a segment in which a competitor is mentioned.
HaveMentions(call_contexts) ==
  /\ call_contexts # <<>>
  /\ \A k \in DOMAIN call_contexts :
       /\ call_contexts[k].segments # <<>>
       /\ \A j \in DOMAIN call_contexts[k].segments :
            call_contexts[k].segments[j].competitors_mentioned # <<>>
\* The cycle has gone past fetch_calls_from_gong and build_call_context.
Fetched == cycle.pc \notin {"idle", "fetch"} /\ cycle.error # "gong"

\* C33: the insight synthesizer is never called without a mention:
\* analyze_with_ai is entered, and a request made, only with call contexts
\* that each hold a segment mentioning a competitor; a week without calls,
\* without transcripts or without qualifying segments gives no call contexts,
\* no request and an empty insight list for the cycle.
C33_NoSynthesisWithoutMention ==
  Fetched =>
    /\ (cycle.pc = "analyze" \/ cycle.asked) => HaveMentions(cycle.call_contexts)
    /\ cycle.call_contexts = <<>> => ~cycle.asked /\ cycle.insights = <<>>
    /\ (cycle.week.calls = <<>> \/ cycle.week.transcripts = <<>>) =>
         cycle.call_contexts = <<>>

\* A week with a call and its transcript but no competitor mention ended in a
\* posted digest without insights and without a request.
C33_Witness ==
  /\ CycleAt("returned") /\ cycle.posted
  /\ cycle.week.calls # <<>> /\ cycle.week.transcripts # <<>>
  /\ cycle.call_contexts = <<>>
  /\ ~cycle.asked
  /\ store[cycle.digest_id].insights = <<>>

\* get_market_intel has returned in the cycle.
IntelReturned == cycle.pc # "idle" /\ cycle.intel_path \in {"no_source", "synthesized"}

\* C34: on every path on which get_market_intel returns (the synthesis gave
\* lists, its request raised, its output was malformed, no source could be
\* fetched) the map has exactly the four tracked market-intel competitors as
\* keys and a list of at most 3 bullets for each; without a fetched source
\* the synthesizer is not called and every list is empty.
C34_MarketIntelShape ==
  IntelReturned =>
    /\ ValidIntel(cycle.market_intel)
    /\ Cardinality(DOMAIN cycle.market_intel) = 4
    /\ cycle.intel_path = "no_source" <=> cycle.fetched = {}
    /\ cycle.intel_path = "no_source" =>
         cycle.intel_body.kind = "none" /\ cycle.market_intel = NoIntel
    /\ cycle.intel_body.kind \in MalformedKinds \cup {"request_raised"} =>
         cycle.market_intel = NoIntel

\* The synthesizer answered with four bullets for a competitor and three of
\* them are in the map of the cycle.
C34_Witness ==
  /\ IntelReturned
  /\ cycle.fetched # {}
  /\ cycle.intel_body.kind = "object"
  /\ "Veeva Systems" \in DOMAIN cycle.intel_body.result
  /\ Len(cycle.intel_body.result["Veeva Systems"].items) = 4
  /\ Len(cycle.market_intel["Veeva Systems"]) = 3

DateRangeDone == pipe.fn = "get_date_range" /\ pipe.pc = "done"
\* The day of the Monday that starts the week of a datetime.
MondayOf(dt) == dt.day - (dt.day % 7)

\* C35: at every time get_date_range returns the previous calendar week: from
\* 00:00:00 of the Monday of the week before the current one to the last
\* instant of the Sunday that follows that Monday, the day before the Monday
\* of the current week.
C35_PreviousCalendarWeek ==
  DateRangeDone =>
    /\ pipe.result[1] = DateTime(MondayOf(pipe.now) - 7, 0, 0, 0, 0)
    /\ pipe.result[2] = DateTime(MondayOf(pipe.now) - 1, 23, 59, 59, 999999)

\* What the function returns: the range ends on the Sunday only when it is
\* called within the first second of a day, and at the end of the Monday of
\* the current week at every other time.
DateRangeOfCode ==
  DateRangeDone =>
    /\ pipe.result[1] = DateTime(MondayOf(pipe.now) - 7, 0, 0, 0, 0)
    /\ pipe.result[2] =
         DateTime(IF pipe.now.hour = 0 /\ pipe.now.minute = 0 /\ pipe.now.second = 0
                  THEN MondayOf(pipe.now) - 1 ELSE MondayOf(pipe.now),
                  23, 59, 59, 999999)

\* The runs of generate_and_send_digest that a slash command started and that
\* have returned without a review message: their post failed.
FailedManualRuns ==
  { n \in 1 .. nTriggers :
      /\ \E i \in DOMAIN issued : issued[i].n = n
      /\ \E j \in DOMAIN ephemerals : ephemerals[j].n = n
      /\ \A run \in runs : run.n # n
      /\ \A k \in DOMAIN reviews : reviews[k].n # n }
\* The user of slash command n was sent something after the first answer.
ToldOfFailure(n) ==
  \E j \in DOMAIN ephemerals :
    /\ ephemerals[j].n = n
    /\ ephemerals[j].text \notin {GeneratingText, RefusalText}

\* An approve whose publish call fails asks for the error notice in the
\* channel of the click and leaves the store, the edited override included,
\* as it was.
ApproveFailureNoticed ==
  [][\A inv \in running :
       (StepOf(inv) /\ inv.op = "approve" /\ inv.pc = "publish" /\ published' = published)
       => /\ last'.n = inv.n
          /\ ~Published(last')
          /\ Noticed(last', ErrorText)
          /\ keys' = keys /\ objs' = objs]_vars

\* C36: every chat-facing error path ends in a message to the user where they
\* acted: an approve whose publish fails posts the error notice to the channel
\* of the click and leaves the entry unchanged, and a slash command whose
\* generation fails to post the review message tells the user who typed it.
C36_ErrorsReachTheUser ==
  /\ [][\A inv \in running :
          (StepOf(inv) /\ inv.op = "approve" /\ inv.pc = "publish" /\ published' = published)
          => /\ last'.n = inv.n
             /\ Noticed(last', ErrorText)
             /\ keys' = keys /\ objs' = objs]_vars
  /\ [](\A n \in FailedManualRuns : ToldOfFailure(n))

\* The messages published to the target channel for a digest id.
PublishedFor(id) == {i \in DOMAIN published : published[i].digest_id = id}

\* C37: over every sequence of approve, edit, submitEdit and dismiss on a
\* digest id and every outcome of the chat-platform calls, at most one message
\* is published to the target channel for that id.
C37_PublishedAtMostOnce == \A id \in DigestIds : Cardinality(PublishedFor(id)) <= 1

\* The step is the return of generate_and_send_digest in run `run`.
Returns(run) == run \in runs /\ run.pc = "post" /\ run \notin runs'
\* The review messages whose buttons carry a digest id.
ReviewsOf(id) ==
  {k \in DOMAIN reviews : ButtonsCarry(reviews[k].blocks, id)}

\* C38: when generate_and_send_digest returns, the id it created is in the
\* store if and only if its review message was posted; from the creation of
\* the entry to the return every other entry of the store stays as it was, a
\* failed post removing the new entry alone; so every entry has a review
\* message, or a run about to post one.
C38_StoredIffPosted ==
  /\ [][\A run \in runs :
          /\ Returns(run) =>
               /\ Len(reviews') > Len(reviews) <=> run.digest_id \in DOMAIN store'
               /\ \A id \in DOMAIN store \ {run.digest_id} :
                    id \in DOMAIN store' /\ store'[id] = store[id]
          /\ (run.pc = "format" /\ run \notin runs') =>
               \A id \in DOMAIN store : id \in DOMAIN store' /\ store'[id] = store[id]]_tvars
  /\ [](\A id \in DOMAIN store :
          ReviewsOf(id) # {} \/ \E run \in runs : run.pc = "post" /\ run.digest_id = id)

\* The same, for the runs whose id no other run has drawn.
StoredIffPostedWithoutCollision ==
  /\ [][\A run \in runs :
          (\A i, j \in DOMAIN issued' : i # j => issued'[i].digest_id # issued'[j].digest_id) =>
            /\ Returns(run) =>
                 /\ Len(reviews') > Len(reviews) <=> run.digest_id \in DOMAIN store'
                 /\ \A id \in DOMAIN store \ {run.digest_id} :
                      id \in DOMAIN store' /\ store'[id] = store[id]
            /\ (run.pc = "format" /\ run \notin runs') =>
                 \A id \in DOMAIN store : id \in DOMAIN store' /\ store'[id] = store[id]]_tvars
  /\ []((\A i, j \in DOMAIN issued : i # j => issued[i].digest_id # issued[j].digest_id) =>
          \A id \in DOMAIN store :
            ReviewsOf(id) # {} \/ \E run \in runs : run.pc = "post" /\ run.digest_id = id)

\* The texts of the content blocks a review message shows: what lies between
\* the heading of a re-posted message, if it has one, and the three closing
\* blocks with the question and the buttons.
ShownContent(blocks) ==
  LET content == IF blocks # <<>> /\ blocks[1].text = "Competitor Insights Report (Edited)"
                 THEN SubSeq(blocks, 2, Len(blocks) - 3)
                 ELSE SubSeq(blocks, 1, Len(blocks) - 3)
  IN  [i \in DOMAIN content |-> content[i].text]
\* The texts of the content blocks of a published message: without the three
\* opening blocks of an edited report, and without the two closing blocks.
PublishedContent(blocks) ==
  LET content == IF blocks # <<>> /\ blocks[1].text = "Competitor Insights Report"
                 THEN EditedContent(blocks)
                 ELSE SubSeq(blocks, 1, Len(blocks) - 2)
  IN  [i \in DOMAIN content |-> content[i].text]
\* The step in which approve invocation inv publishes.
Publishes(inv) ==
  /\ inv \in running /\ inv.op = "approve" /\ inv.pc = "publish"
  /\ Len(published') = Len(published) + 1
  /\ \E next \in running' : next.n = inv.n /\ next.pc = "update"

\* C39: what approve publishes is what the review message shows whose Approve
\* button was clicked, also when that message is an earlier one that a
\* submitted edit has since replaced.
C39_PublishesWhatIsShown ==
  [][\A inv \in running :
       Publishes(inv) =>
         PublishedContent(published'[Len(published')].blocks)
           = ShownContent(messages[inv.message_ts].blocks)]_vars

\* The same for a digest no edit was submitted for: approve publishes the
\* content blocks of the review message.
PublishesWhatUneditedShows ==
  [][\A inv \in running :
       (Publishes(inv) /\ ~objs[inv.digest_id].has_edited_text) =>
         PublishedContent(published'[Len(published')].blocks)
           = ShownContent(messages[inv.message_ts].blocks)]_vars

\* The layout of content blocks over a text: for each block, the places of
\* the sections written in it.
Layout(blocks, text) == [b \in DOMAIN blocks |-> SectionsIn(blocks[b], text)]

\* C40: the chunker of handle_approve and the chunker of
\* handle_edit_submission give, for every edited text, the same number of
\* content blocks with the same sections in each block.
C40_ChunkersSameLayout ==
  ChunksDone =>
    Layout(ApproveContentBlocks(pipe.text), pipe.text)
      = Layout(SubmitContentBlocks(pipe.text), pipe.text)

\* The two chunkers agree on every text of at most three sections.
ChunkersSameLayoutUpToThree ==
  (ChunksDone /\ Len(pipe.text) <= 3) =>
    Layout(ApproveContentBlocks(pipe.text), pipe.text)
      = Layout(SubmitContentBlocks(pipe.text), pipe.text)

====
